---- MODULE Spec2Model ----
(***************************************************************************)
(* Workout station generator: equipment accounting, workout history,       *)
(* station building (build_plan), last-plan persistence and the edit run.  *)
(*                                                                         *)
(* Conventions                                                             *)
(*   - an equipment map ({"bench": {"count": 1}}) is a function from the   *)
(*     equipment types it lists to their counts; the empty dict is <<>>;   *)
(*   - an exercise's equipment, whose listing order matters to the option  *)
(*     selection, is a sequence of [type, count] records;                  *)
(*   - priority scores are kept in tenths (0.1 -> 1, 1.5 -> 15).           *)
(***************************************************************************)
EXTENDS Integers, Sequences, FiniteSets, TLC

VARIABLES
    pc,             \* position of the running process
    fn_in,          \* arguments of the function call under examination
    fn_out,         \* its return value
    history_data,   \* workout_history.json / WorkoutHistoryManager.history_data
    runs,           \* number of generation runs that ended successfully
    plan,           \* plan.json as load_plan returns it
    gear,           \* equipment/*.json as parse_equipment returns it, flattened
    max_retries,    \* generate_workout_with_retries: the bound of its loop
    include_ids,    \* the ids of the -include flag; empty without the flag
    crossfit_file,  \* equipment/crossfit_path.json
    driver_pool,    \* generate_workout_with_retries: station_pool, shuffled in place
    attempt,        \* generate_workout_with_retries: the loop variable
    station_pool,   \* build_plan: the working pool, as catalog positions
    used_names,     \* build_plan: names taken by the stations so far
    used_exercise_ids,          \* build_plan: ids for the history
    cumulative_station_usage,   \* build_plan: equipment held by the stations so far
    stations,       \* build_plan: the stations emitted so far
    cycle_idx,      \* build_plan: position in balance_order
    last_plan,      \* workout_store/LAST_WORKOUT_PLAN.json
    ids_to_replace, \* edit run: set(edit_ids) after validation
    current_stations,   \* edit run: last_plan_data['stations'], updated in place
    locations_by_id,    \* edit run: the ids still to replace, with their positions
    already_used,   \* edit run: ids kept or already chosen
    all_used_names  \* edit run: names of the rebuilt plan and of the chosen exercises

histVars == <<history_data, runs>>
fnVars == <<fn_in, fn_out>>
inputVars == <<plan, gear, max_retries, include_ids, crossfit_file>>
buildVars == <<driver_pool, attempt, station_pool, used_names, used_exercise_ids,
               cumulative_station_usage, stations, cycle_idx>>
editVars == <<ids_to_replace, current_stations, locations_by_id, already_used,
              all_used_names>>
planVars == <<plan, gear, max_retries, include_ids, crossfit_file, driver_pool, attempt, station_pool, used_names, used_exercise_ids,
              cumulative_station_usage, stations, cycle_idx, last_plan,
              ids_to_replace, current_stations, locations_by_id, already_used,
              all_used_names>>
vars == <<pc, fn_in, fn_out, history_data, runs, plan, gear, max_retries,
          include_ids, crossfit_file,
          driver_pool, attempt, station_pool,
          used_names, used_exercise_ids, cumulative_station_usage, stations,
          cycle_idx, last_plan, ids_to_replace, current_stations, locations_by_id,
          already_used, all_used_names>>

None == "none"

\* CROSSFIT_PATH_FILE.exists() is false
NoCrossfitFile == [exists |-> FALSE, entries |-> <<>>]

-----------------------------------------------------------------------------
(* Bounds of the model *)

\* longest list of step equipment maps handed to the accountant
MaxLen == 2
\* largest equipment count in a drawn step equipment map
MaxCount == 2
\* generation runs per behaviour of the history specification
MaxRuns == 11

-----------------------------------------------------------------------------
(* Generic helpers *)

Max2(a, b) == IF a >= b THEN a ELSE b

EmptyMap == <<>>

\* dict.get(key, {}).get("count", 0)
GetCount(m, t) == IF t \in DOMAIN m THEN m[t] ELSE 0

RECURSIVE SeqSum(_)
SeqSum(s) == IF s = <<>> THEN 0 ELSE Head(s) + SeqSum(Tail(s))

RECURSIVE SeqMax(_)
SeqMax(s) ==
    IF Len(s) = 1 THEN Head(s) ELSE Max2(Head(s), SeqMax(Tail(s)))

\* elements of a sequence
Range(s) == {s[i] : i \in 1..Len(s)}

\* s[-n:] of Python
LastN(s, n) ==
    IF Len(s) <= n THEN s ELSE SubSeq(s, Len(s) - n + 1, Len(s))

-----------------------------------------------------------------------------
(* Equipment accountant: workout_planner.get_station_equipment_requirements *)

SumRule(step_counts) == SeqSum(step_counts)

MaxRule(step_counts) == IF step_counts # <<>> THEN SeqMax(step_counts) ELSE 0

\* mutant: the sequential rule also adds the step counts up
get_station_equipment_requirements_sum(step_equipments, people_per_station) ==
    IF step_equipments = <<>> THEN EmptyMap
    ELSE LET all_equipment_types ==
                 UNION {DOMAIN step_equipments[i] : i \in 1..Len(step_equipments)}
             required_count(t) ==
                 SumRule([i \in 1..Len(step_equipments) |-> GetCount(step_equipments[i], t)])
         IN [t \in {u \in all_equipment_types : required_count(u) > 0} |-> required_count(t)]

get_station_equipment_requirements(step_equipments, people_per_station) ==
    IF step_equipments = <<>> THEN EmptyMap
    ELSE LET all_equipment_types ==
                 UNION {DOMAIN step_equipments[i] : i \in 1..Len(step_equipments)}
             step_counts(t) ==
                 [i \in 1..Len(step_equipments) |-> GetCount(step_equipments[i], t)]
             required_count(t) ==
                 IF people_per_station > 1
                 THEN SumRule(step_counts(t))
                 ELSE MaxRule(step_counts(t))
         IN [t \in {u \in all_equipment_types : required_count(u) > 0} |-> required_count(t)]

-----------------------------------------------------------------------------
(* Workout history: workout_history.WorkoutHistoryManager *)

SessionLimit == 10

EmptyHistory ==
    [workout_sessions |-> <<>>,
     exercise_usage_count |-> EmptyMap,
     total_workouts_generated |-> 0]

\* the for loop of record_workout_session over used_exercise_ids
RECURSIVE UpdateUsage(_, _)
UpdateUsage(counts, ids) ==
    IF ids = <<>> THEN counts
    ELSE LET id == Head(ids)
             bumped ==
                 IF id \in DOMAIN counts
                 THEN [counts EXCEPT ![id] = @ + 1]
                 ELSE [k \in DOMAIN counts \cup {id} |->
                          IF k = id THEN 1 ELSE counts[k]]
         IN UpdateUsage(bumped, Tail(ids))

\* mutant: keeps the oldest sessions instead of the newest
TruncateSessionsOldest(sessions) ==
    IF Len(sessions) > SessionLimit THEN SubSeq(sessions, 1, SessionLimit) ELSE sessions

TruncateSessions(sessions) ==
    IF Len(sessions) > SessionLimit THEN LastN(sessions, SessionLimit) ELSE sessions

record_workout_session(h, exercise_ids) ==
    LET session == [used_exercise_ids |-> exercise_ids,
                    exercise_count |-> Len(exercise_ids)]
    IN [workout_sessions |-> TruncateSessions(Append(h.workout_sessions, session)),
        exercise_usage_count |-> UpdateUsage(h.exercise_usage_count, exercise_ids),
        total_workouts_generated |-> h.total_workouts_generated + 1]

get_recently_used_exercise_ids(h, last_n_sessions) ==
    LET recent_sessions == LastN(h.workout_sessions, last_n_sessions)
    IN UNION {Range(recent_sessions[i].used_exercise_ids) : i \in 1..Len(recent_sessions)}

get_exercise_usage_count(h, exercise_id) == GetCount(h.exercise_usage_count, exercise_id)

\* mutant: the usage count is consulted before the last-5 window
calculate_exercise_priority_score_reordered(h, exercise_id, base_priority) ==
    IF exercise_id \in get_recently_used_exercise_ids(h, 2) THEN base_priority * 1
    ELSE IF get_exercise_usage_count(h, exercise_id) = 0 THEN base_priority * 15
    ELSE IF get_exercise_usage_count(h, exercise_id) = 1 THEN base_priority * 12
    ELSE IF exercise_id \in get_recently_used_exercise_ids(h, 5) THEN base_priority * 5
    ELSE base_priority * 10

\* result in tenths of the base priority
calculate_exercise_priority_score(h, exercise_id, base_priority) ==
    IF exercise_id \in get_recently_used_exercise_ids(h, 2) THEN base_priority * 1
    ELSE IF exercise_id \in get_recently_used_exercise_ids(h, 5) THEN base_priority * 5
    ELSE IF get_exercise_usage_count(h, exercise_id) = 0 THEN base_priority * 15
    ELSE IF get_exercise_usage_count(h, exercise_id) = 1 THEN base_priority * 12
    ELSE base_priority * 10

\* mutant: the session is recorded whether or not the history is enabled
main_record_unconditional(h, history_enabled, exercise_ids) ==
    record_workout_session(h, exercise_ids)

\* main(): the tail of a successful generation run
main_record(h, history_enabled, exercise_ids) ==
    IF history_enabled /\ exercise_ids # <<>>
    THEN record_workout_session(h, exercise_ids)
    ELSE h

-----------------------------------------------------------------------------
(* Catalog and plan data *)

\* equipment_type.split('_')
Tokens(t) ==
    CASE t = "bench" -> <<"bench">>
      [] t = "plyo_box" -> <<"plyo", "box">>
      [] t = "dumbbells_3kg" -> <<"dumbbells", "3kg">>
      [] t = "dumbbells_5kg" -> <<"dumbbells", "5kg">>
      [] t = "kettlebells_16kg" -> <<"kettlebells", "16kg">>
      [] t = "slam_balls_5kg" -> <<"slam", "balls", "5kg">>
      [] t = "slam_balls_8kg" -> <<"slam", "balls", "8kg">>

WeightFamilies == {"dumbbells", "kettlebells", "slam_balls"}

\* equipment/*.json as build_station_pool reads it, in source order
Catalog ==
    << [id |-> 1, name |-> "Press", area |-> "upper", unilateral |-> FALSE,
        equipment |-> << [type |-> "bench", count |-> 1],
                         [type |-> "dumbbells_3kg", count |-> 2],
                         [type |-> "dumbbells_5kg", count |-> 2] >>],
       [id |-> 2, name |-> "Push-up", area |-> "upper", unilateral |-> FALSE,
        equipment |-> << >>],
       [id |-> 3, name |-> "Step-up", area |-> "lower", unilateral |-> TRUE,
        equipment |-> << [type |-> "plyo_box", count |-> 1] >>],
       [id |-> 4, name |-> "Split squat", area |-> "lower", unilateral |-> TRUE,
        equipment |-> << [type |-> "dumbbells_5kg", count |-> 1] >>],
       [id |-> 5, name |-> "Dip", area |-> "upper", unilateral |-> FALSE,
        equipment |-> << >>] >>

\* the catalog of scenario S1: two exercises on the one kettlebell
S1Catalog ==
    << [id |-> 1, name |-> "KB Press", area |-> "upper", unilateral |-> FALSE,
        equipment |-> << [type |-> "kettlebells_16kg", count |-> 1] >>],
       [id |-> 2, name |-> "KB Squat", area |-> "lower", unilateral |-> FALSE,
        equipment |-> << [type |-> "kettlebells_16kg", count |-> 1] >>] >>

\* the catalog of scenario S3: a unilateral exercise and a filler
S3Catalog ==
    << [id |-> 7, name |-> "Bulgarian Split Squat", area |-> "upper", unilateral |-> TRUE,
        equipment |-> << >>],
       [id |-> 8, name |-> "Push-up", area |-> "upper", unilateral |-> FALSE,
        equipment |-> << >>] >>

\* the catalog of scenario S4: three candidates of one area
S4Catalog ==
    << [id |-> 10, name |-> "Box dip", area |-> "upper", unilateral |-> FALSE,
        equipment |-> << [type |-> "plyo_box", count |-> 1] >>],
       [id |-> 11, name |-> "Bench press", area |-> "upper", unilateral |-> FALSE,
        equipment |-> << [type |-> "bench", count |-> 1] >>],
       [id |-> 12, name |-> "Bench row", area |-> "upper", unilateral |-> FALSE,
        equipment |-> << [type |-> "bench", count |-> 1] >>] >>

\* the catalog of scenario S5: the stored exercises 7 and 8 and what can
\* replace them
S5Catalog ==
    << [id |-> 7, name |-> "Bulgarian Split Squat", area |-> "upper", unilateral |-> TRUE,
        equipment |-> << >>],
       [id |-> 8, name |-> "Push-up", area |-> "upper", unilateral |-> FALSE,
        equipment |-> << >>],
       [id |-> 9, name |-> "Box arm row", area |-> "upper", unilateral |-> TRUE,
        equipment |-> << [type |-> "plyo_box", count |-> 1] >>],
       [id |-> 10, name |-> "Dip", area |-> "upper", unilateral |-> FALSE,
        equipment |-> << >>],
       [id |-> 11, name |-> "Bench press", area |-> "upper", unilateral |-> FALSE,
        equipment |-> << [type |-> "bench", count |-> 1] >>],
       [id |-> 12, name |-> "Lunge", area |-> "lower", unilateral |-> TRUE,
        equipment |-> << >>],
       [id |-> 13, name |-> "Squat", area |-> "lower", unilateral |-> FALSE,
        equipment |-> << >>] >>

\* an exercise tuple is handled by its position in the catalog
ExArea(k) == gear[k].area
ExName(k) == gear[k].name
ExEquipment(k) == gear[k].equipment
ExUnilateral(k) == gear[k].unilateral
ExId(k) == gear[k].id

\* the dict an ordered equipment listing stands for
AsMap(listing) ==
    [t \in {listing[i].type : i \in 1..Len(listing)} |->
        (CHOOSE e \in Range(listing) : e.type = t).count]

-----------------------------------------------------------------------------
(* Feasibility filter: equipment.py *)

\* mutant: only the presence of the type is checked, not its count
can_exercise_be_performed_present(exercise_equipment, available_inventory) ==
    \A i \in 1..Len(exercise_equipment) :
        exercise_equipment[i].type \in DOMAIN available_inventory

\* validate_equipment_requirements(...)[0]
can_exercise_be_performed(exercise_equipment, available_inventory) ==
    \A i \in 1..Len(exercise_equipment) :
        /\ exercise_equipment[i].type \in DOMAIN available_inventory
        /\ exercise_equipment[i].count <= available_inventory[exercise_equipment[i].type]

filter_feasible_exercises(pool, available_inventory) ==
    SelectSeq(pool, LAMBDA k : can_exercise_be_performed(ExEquipment(k), available_inventory))

\* mutant: the pool is returned as read, whatever the inventory
build_station_pool_unfiltered(available_inventory) == [k \in 1..Len(gear) |-> k]

\* the pool of catalog positions; an empty inventory disables the filter
build_station_pool(available_inventory) ==
    LET pool == [k \in 1..Len(gear) |-> k]
    IN IF available_inventory # EmptyMap
       THEN filter_feasible_exercises(pool, available_inventory)
       ELSE pool

-----------------------------------------------------------------------------
(* Equipment option selection and admission: workout_planner.py *)

\* total_score = (available - required) + required / max(available, 1),
\* kept as a fraction over max(available, 1)
ScoreNum(available, required) ==
    (available - required) * Max2(available, 1) + required
ScoreDen(available) == Max2(available, 1)

\* the loop over one family's options; best = 0 while best_option is None
RECURSIVE BestOptionFrom(_, _, _, _)
BestOptionFrom(options, i, best, available_inventory) ==
    IF i > Len(options) THEN best
    ELSE LET required == options[i].count
             available == GetCount(available_inventory, options[i].type)
             best_req == options[best].count
             best_avail == GetCount(available_inventory, options[best].type)
             better ==
                 /\ available >= required
                 /\ \/ best = 0
                    \/ ScoreNum(available, required) * ScoreDen(best_avail)
                         > ScoreNum(best_avail, best_req) * ScoreDen(available)
         IN BestOptionFrom(options, i + 1, IF better THEN i ELSE best, available_inventory)

select_best_equipment_option(exercise_equipment, available_inventory) ==
    IF exercise_equipment = <<>> \/ available_inventory = EmptyMap
    THEN AsMap(exercise_equipment)
    ELSE LET base_type(e) == Tokens(e.type)[1]
             other_equipment ==
                 SelectSeq(exercise_equipment, LAMBDA e : base_type(e) \notin WeightFamilies)
             groups == {base_type(exercise_equipment[i]) : i \in 1..Len(exercise_equipment)}
                           \cap WeightFamilies
             options(b) == SelectSeq(exercise_equipment, LAMBDA e : base_type(e) = b)
             chosen(b) ==
                 LET best == BestOptionFrom(options(b), 1, 0, available_inventory)
                 IN IF best # 0 THEN options(b)[best] ELSE options(b)[1]
             picked == {chosen(b) : b \in groups}
         IN [t \in DOMAIN AsMap(other_equipment) \cup {e.type : e \in picked} |->
                IF t \in DOMAIN AsMap(other_equipment)
                THEN AsMap(other_equipment)[t]
                ELSE (CHOOSE e \in picked : e.type = t).count]

\* mutant: the station is checked on its own, without the usage so far
can_add_station_to_workout_alone(step_equipments, cumulative_usage, available_inventory, pps) ==
    IF available_inventory = EmptyMap THEN TRUE
    ELSE LET station_requirements == get_station_equipment_requirements(step_equipments, pps)
         IN \A t \in DOMAIN station_requirements :
                station_requirements[t] <= GetCount(available_inventory, t)

can_add_station_to_workout(step_equipments, cumulative_usage, available_inventory, pps) ==
    IF available_inventory = EmptyMap THEN TRUE
    ELSE LET station_requirements == get_station_equipment_requirements(step_equipments, pps)
             test_usage ==
                 [t \in DOMAIN cumulative_usage \cup DOMAIN station_requirements |->
                     GetCount(cumulative_usage, t) + GetCount(station_requirements, t)]
         IN \A t \in DOMAIN test_usage : test_usage[t] <= GetCount(available_inventory, t)

\* mutant: an admitted station's requirements are not added to the usage
AddUsageDropped(cumulative_usage, station_requirements) == cumulative_usage

\* cumulative_station_usage after a station's requirements are added
AddUsage(cumulative_usage, station_requirements) ==
    [t \in DOMAIN cumulative_usage \cup DOMAIN station_requirements |->
        GetCount(cumulative_usage, t) + GetCount(station_requirements, t)]

filter_exercises_by_remaining_equipment(pool, cumulative_usage, available_inventory, pps) ==
    IF available_inventory = EmptyMap THEN pool
    ELSE SelectSeq(pool, LAMBDA k :
            LET selected_equipment ==
                    select_best_equipment_option(ExEquipment(k), available_inventory)
            IN \A t \in DOMAIN selected_equipment :
                   GetCount(cumulative_usage, t) + selected_equipment[t]
                       <= GetCount(available_inventory, t))

-----------------------------------------------------------------------------
(* Must-use prioritisation and the station builder: workout_planner.py *)

\* list.sort(key=...): stable, ascending; key is a function on the elements
RECURSIVE InsertAsc(_, _, _)
InsertAsc(sorted, x, key) ==
    IF sorted = <<>> THEN <<x>>
    ELSE IF key[Head(sorted)] > key[x] THEN <<x>> \o sorted
    ELSE <<Head(sorted)>> \o InsertAsc(Tail(sorted), x, key)

RECURSIVE SortAscInto(_, _, _)
SortAscInto(acc, rest, key) ==
    IF rest = <<>> THEN acc
    ELSE SortAscInto(InsertAsc(acc, Head(rest), key), Tail(rest), key)

\* list.sort(key=..., reverse=True): stable, descending
RECURSIVE InsertDesc(_, _, _)
InsertDesc(sorted, x, key) ==
    IF sorted = <<>> THEN <<x>>
    ELSE IF key[Head(sorted)] < key[x] THEN <<x>> \o sorted
    ELSE <<Head(sorted)>> \o InsertDesc(Tail(sorted), x, key)

RECURSIVE SortDescInto(_, _, _)
SortDescInto(acc, rest, key) ==
    IF rest = <<>> THEN acc
    ELSE SortDescInto(InsertDesc(acc, Head(rest), key), Tail(rest), key)

\* mutant: the list is left in the order of the pool
SortByVarietyUnsorted(exercises, variety) == exercises

SortByVariety(exercises, variety) == SortDescInto(<<>>, exercises, variety)

priority_order ==
    <<"plyo_box", "bench", "dip_parallel_bars", "barbells",
      "slam_balls_5kg", "dumbbells_3kg", "dumbbells_5kg">>

get_priority(equipment_type) ==
    IF \E i \in 1..Len(priority_order) : priority_order[i] = equipment_type
    THEN (CHOOSE i \in 1..Len(priority_order) : priority_order[i] = equipment_type) - 1
    ELSE Len(priority_order)

prioritize_must_use_exercises(must_use_equipment, cumulative_usage, available_inventory) ==
    LET unused_must_use ==
            SelectSeq(must_use_equipment, LAMBDA t :
                /\ GetCount(available_inventory, t) > 0
                /\ GetCount(cumulative_usage, t) < GetCount(available_inventory, t))
    IN SortAscInto(<<>>, unused_must_use,
                   [t \in Range(unused_must_use) |-> get_priority(t)])

\* uses_must_use_equipment: some must-use type is a key of the exercise's equipment
uses_must_use_equipment(k, must_use_equipment) ==
    \E i \in 1..Len(must_use_equipment) :
        \E j \in 1..Len(ExEquipment(k)) : ExEquipment(k)[j].type = must_use_equipment[i]

\* the step equipment maps of the selected exercises, a unilateral one twice
RECURSIVE StepEquipmentsOf(_, _)
StepEquipmentsOf(selected_exercises, available_inventory) ==
    IF selected_exercises = <<>> THEN <<>>
    ELSE LET k == Head(selected_exercises)
             selected_equipment ==
                 select_best_equipment_option(ExEquipment(k), available_inventory)
         IN (IF ExUnilateral(k)
             THEN <<selected_equipment, selected_equipment>>
             ELSE <<selected_equipment>>)
            \o StepEquipmentsOf(Tail(selected_exercises), available_inventory)

\* try_combination with remaining_steps <= 0; c is the closure of
\* find_compatible_exercises_for_station
TryLeaf(selected_exercises, c) ==
    IF can_add_station_to_workout(
           StepEquipmentsOf(selected_exercises, c.available_inventory),
           c.cumulative_usage, c.available_inventory, c.people_per_station)
    THEN IF c.must_use_equipment # <<>>
              /\ ~\E i \in 1..Len(selected_exercises) :
                     uses_must_use_equipment(selected_exercises[i], c.must_use_equipment)
         THEN <<>>
         ELSE selected_exercises
    ELSE <<>>

steps_consumed(k) == IF ExUnilateral(k) THEN 2 ELSE 1

\* "result = ...; if result: return result", then what follows
FirstNonEmpty(result, otherwise) ==
    CHOOSE r \in {IF x # <<>> THEN x ELSE otherwise : x \in {result}} : TRUE

RECURSIVE try_combination(_, _, _, _)
RECURSIVE TryEach(_, _, _, _, _)

try_combination(exercises_to_try, selected_exercises, remaining_steps, c) ==
    IF remaining_steps <= 0 THEN TryLeaf(selected_exercises, c)
    ELSE TryEach(SelectSeq(exercises_to_try, LAMBDA k : ExArea(k) = c.area_target)
                     \o SelectSeq(exercises_to_try, LAMBDA k : ExArea(k) # c.area_target),
                 1, selected_exercises, remaining_steps, c)

\* one pass of the for loop of try_combination at position i
TryOne(ordered_exercises, i, k, selected_exercises, remaining_steps, c) ==
    IF /\ \A j \in 1..Len(selected_exercises) : ExName(selected_exercises[j]) # ExName(k)
       /\ steps_consumed(k) <= remaining_steps
    THEN try_combination(
             SelectSeq(SubSeq(ordered_exercises, i + 1, Len(ordered_exercises)),
                       LAMBDA x : x # k),
             Append(selected_exercises, k), remaining_steps - steps_consumed(k), c)
    ELSE <<>>

\* the for loop of try_combination from position i of ordered_exercises
TryEach(ordered_exercises, i, selected_exercises, remaining_steps, c) ==
    IF i > Len(ordered_exercises) THEN <<>>
    ELSE FirstNonEmpty(
             TryOne(ordered_exercises, i, ordered_exercises[i], selected_exercises,
                    remaining_steps, c),
             TryEach(ordered_exercises, i + 1, selected_exercises, remaining_steps, c))

\* Strategy 0 hands the seeded station a budget of steps_per_station - 1
SeedBudget(k, steps_per_station) == steps_per_station - 1

\* for must_use_ex in candidates: try_combination(remaining, [must_use_ex], ...)
RECURSIVE TrySeeded(_, _, _, _, _)
TrySeeded(candidates, i, available_exercises, steps_per_station, c) ==
    IF i > Len(candidates) THEN <<>>
    ELSE FirstNonEmpty(
             try_combination(SelectSeq(available_exercises, LAMBDA x : x # candidates[i]),
                             <<candidates[i]>>,
                             SeedBudget(candidates[i], steps_per_station), c),
             TrySeeded(candidates, i + 1, available_exercises, steps_per_station, c))

VarietyThreshold == 8

AvailableExercises(pool, names_taken) ==
    SelectSeq(pool, LAMBDA k : ExName(k) \notin names_taken)

\* Strategy 0: the must-use exercises, best variety first
MustUseExercises(available_exercises, variety, c) ==
    SortByVariety(
        SelectSeq(available_exercises,
                  LAMBDA k : uses_must_use_equipment(k, c.must_use_equipment)),
        variety)

\* those of the target area, tried first when the best of them scores >= 0.8
TargetAreaFirst(target_area_must_use, variety) ==
    IF target_area_must_use # <<>>
         /\ variety[target_area_must_use[1]] >= VarietyThreshold
    THEN target_area_must_use
    ELSE <<>>

\* the seeds Strategy 0 tries, in order: the target area's, then all of them
SeedOrder(must_use_exercises, variety, c) ==
    TargetAreaFirst(
        SortByVariety(SelectSeq(must_use_exercises, LAMBDA k : ExArea(k) = c.area_target),
                      variety),
        variety)
    \o must_use_exercises

\* Strategy 1 and 2: area_exercises, sorted only when Strategy 1 runs
AreaExercises(area_unsorted, steps_per_station, variety) ==
    IF Len(area_unsorted) >= steps_per_station
    THEN SortByVariety(area_unsorted, variety)
    ELSE area_unsorted

\* the lists Strategy 1 and Strategy 2 hand to try_combination
UnseededLists(area_exercises, other_exercises, steps_per_station) ==
    (IF Len(area_exercises) >= steps_per_station THEN <<area_exercises>> ELSE <<>>)
        \o <<area_exercises \o other_exercises>>

RECURSIVE TryLists(_, _, _, _)
TryLists(lists, i, steps_per_station, c) ==
    IF i > Len(lists) THEN <<>>
    ELSE FirstNonEmpty(try_combination(lists[i], <<>>, steps_per_station, c),
                       TryLists(lists, i + 1, steps_per_station, c))

\* the strategies over the exercises whose names are still free
Strategies(available_exercises, steps_per_station, variety, c) ==
    IF Len(available_exercises) < steps_per_station THEN <<>>
    ELSE FirstNonEmpty(
             IF c.must_use_equipment # <<>>
             THEN TrySeeded(
                      SeedOrder(MustUseExercises(available_exercises, variety, c), variety, c),
                      1, available_exercises, steps_per_station, c)
             ELSE <<>>,
             TryLists(
                 UnseededLists(
                     AreaExercises(
                         SelectSeq(available_exercises, LAMBDA k : ExArea(k) = c.area_target),
                         steps_per_station, variety),
                     SortByVariety(
                         SelectSeq(available_exercises, LAMBDA k : ExArea(k) # c.area_target),
                         variety),
                     steps_per_station),
                 1, steps_per_station, c))

\* c carries area_target, cumulative_usage, available_inventory,
\* people_per_station and must_use_equipment; variety maps a catalog position
\* to get_variety_score
find_compatible_exercises_for_station(pool, steps_per_station, names_taken, variety, c) ==
    IF c.available_inventory = EmptyMap \/ steps_per_station <= 0 THEN <<>>
    ELSE Strategies(AvailableExercises(pool, names_taken), steps_per_station, variety, c)

-----------------------------------------------------------------------------
(* Process state outside a run *)

NoLastPlan == [exists |-> FALSE, stations |-> <<>>]

\* int(time.time() * 1000) % 2147483647: a seed is read by nothing but
\* random.seed, so one value stands for every clock reading
ClockSeeds == {11}

\* secrets.randbits(32): equal to a stored seed or different from it
FreshSeeds == {10, 11, 12}

\* save_workout_html(..., seed=seed): the "seed" of LAST_WORKOUT_PLAN.json
StoredSeed(seed) == seed

\* the locals of build_plan before its loop (workout_planner.py 743-750)
BuildLocalsInit ==
    /\ used_names = {}
    /\ used_exercise_ids = <<>>
    /\ cumulative_station_usage = EmptyMap
    /\ stations = <<>>
    /\ cycle_idx = 0

\* the locals of the edit run before main() reaches it
EditLocalsInit ==
    /\ ids_to_replace = {}
    /\ current_stations = <<>>
    /\ locations_by_id = <<>>
    /\ already_used = {}
    /\ all_used_names = {}

\* no plan is loaded and no store exists: the function-level specifications
NoPlanRun ==
    /\ plan = None
    /\ gear = <<>>
    /\ max_retries = 0
    /\ include_ids = {}
    /\ crossfit_file = NoCrossfitFile
    /\ driver_pool = <<>>
    /\ attempt = 0
    /\ station_pool = <<>>
    /\ BuildLocalsInit
    /\ last_plan = NoLastPlan
    /\ EditLocalsInit

-----------------------------------------------------------------------------
(* Specification SpecReq: the accountant applied to drawn step lists *)

ReqTypes == {"bench", "plyo_box"}

StepMaps == UNION {[T -> 0..MaxCount] : T \in SUBSET ReqTypes}

StepLists == UNION {[1..n -> StepMaps] : n \in 0..MaxLen}

InitReq ==
    /\ pc = "call"
    /\ fn_in \in [step_equipments : StepLists, people_per_station : {1, 2}]
    /\ fn_out = None
    /\ history_data = EmptyHistory
    /\ runs = 0
    /\ NoPlanRun

ApplyRequirements ==
    /\ pc = "call"
    /\ pc' = "return"
    /\ fn_out' = get_station_equipment_requirements(fn_in.step_equipments,
                                                    fn_in.people_per_station)
    /\ UNCHANGED <<fn_in, histVars, planVars>>

NextReq == ApplyRequirements

SpecReq == InitReq /\ [][NextReq]_vars

-----------------------------------------------------------------------------
(* Specification SpecHist: generation runs ending, and priority queries *)

HistIds == 1..4

SessionChoices == {<<>>, <<1>>, <<2, 3>>}

InitHist ==
    /\ pc = "idle"
    /\ fn_in = None
    /\ fn_out = None
    /\ history_data = EmptyHistory
    /\ runs = 0
    /\ NoPlanRun

\* a generation run reaches the end of main()'s try block
RunSucceeds(history_enabled, exercise_ids) ==
    /\ runs < MaxRuns
    /\ pc' = "ran"
    /\ runs' = runs + 1
    /\ fn_in' = [history_enabled |-> history_enabled,
                 used_exercise_ids |-> exercise_ids]
    /\ fn_out' = None
    /\ history_data' = main_record(history_data, history_enabled, exercise_ids)
    /\ UNCHANGED planVars

QueryPriority(exercise_id, base_priority) ==
    /\ pc' = "queried"
    /\ fn_in' = [exercise_id |-> exercise_id, base_priority |-> base_priority]
    /\ fn_out' = calculate_exercise_priority_score(history_data, exercise_id, base_priority)
    /\ UNCHANGED <<histVars, planVars>>

NextHist ==
    \/ \E e \in BOOLEAN, ids \in SessionChoices : RunSucceeds(e, ids)
    \/ \E id \in HistIds, b \in {1, 2} : QueryPriority(id, b)

SpecHist == InitHist /\ [][NextHist]_vars

-----------------------------------------------------------------------------
(* Specification Spec: a generation run into an empty store, then edit runs *)

\* stations and steps_per_station of the drawn plan.json
MaxStations == 2
MaxSteps == 2
\* max_retries of generate_workout_with_retries as the model runs it
MaxRetries == 2
\* ids on the -edit command line
MaxEdits == 2

BalanceOrder == <<"upper", "lower">>

Inventories ==
    { (("bench" :> 1) @@ ("plyo_box" :> 1) @@ ("dumbbells_3kg" :> 2) @@ ("dumbbells_5kg" :> 3)),
      (("bench" :> 1) @@ ("plyo_box" :> 2) @@ ("dumbbells_3kg" :> 4) @@ ("dumbbells_5kg" :> 2)),
      EmptyMap }

MustUseChoices == {<<>>, <<"dumbbells_5kg", "plyo_box">>}

\* workout_history.json as earlier runs can have left it
HistoryChoices == {EmptyHistory, record_workout_session(EmptyHistory, <<1, 3>>)}

\* get_variety_score with the history disabled: random.random() in tenths
RandomScores ==
    { [k \in 1..Len(gear) |-> 9],
      [k \in 1..Len(gear) |-> 0],
      [k \in 1..Len(gear) |-> k] }

\* plan["people_per_station"] as build_plan sets it
PeoplePerStation(stations_needed, people_count) ==
    IF stations_needed > 0
    THEN (IF people_count \div stations_needed < 2
          THEN people_count \div stations_needed ELSE 2)
    ELSE 1

PlanConfigs ==
    { [stations |-> n, people |-> n * m, steps_per_station |-> k,
       balance_order |-> BalanceOrder, equipment |-> inv, must_use |-> mu,
       use_workout_history |-> uh,
       people_per_station |-> PeoplePerStation(n, n * m)] :
         n \in 1..MaxStations, m \in {1, 2}, k \in 1..MaxSteps,
         inv \in Inventories, mu \in MustUseChoices, uh \in BOOLEAN }

\* random.shuffle(station_pool): every order of the pool
Shuffles(pool) ==
    {[i \in 1..Len(pool) |-> pool[order[i]]] : order \in Permutations(1..Len(pool))}

\* the files a run finds: equipment/*.json, plan.json, workout_history.json
\* and LAST_WORKOUT_PLAN.json
RunInput(g, p, h, lp) == [gear |-> g, plan |-> p, history_data |-> h, last_plan |-> lp]

\* plan.json with the fields the builder and the edit run read
PlanRecord(n, people, k, balance, inv, mu, uh) ==
    [stations |-> n, people |-> people, steps_per_station |-> k,
     balance_order |-> balance, equipment |-> inv, must_use |-> mu,
     use_workout_history |-> uh,
     people_per_station |-> PeoplePerStation(n, people)]

MainInputs ==
    {RunInput(Catalog, c, h, NoLastPlan) :
        c \in PlanConfigs,
        h \in HistoryChoices}

\* scenario S1, and the same catalog before an inventory without kettlebells
S1Plan(inv, uh) == PlanRecord(2, 2, 1, <<"upper", "lower">>, inv, <<>>, uh)
S1Inventory == ("kettlebells_16kg" :> 1)
S1Inputs ==
    {RunInput(S1Catalog, S1Plan(inv, uh), EmptyHistory, NoLastPlan) :
        inv \in {S1Inventory, ("bench" :> 1)}, uh \in BOOLEAN}

\* the catalog of S1 under a must-use list that names a type outside the
\* priority table before one inside it
S1MustUseInputs ==
    {RunInput(S1Catalog,
              PlanRecord(2, 2, 1, <<"upper", "lower">>,
                         ("kettlebells_16kg" :> 2) @@ ("bench" :> 1),
                         <<"kettlebells_16kg", "bench">>, TRUE),
              EmptyHistory, NoLastPlan)}

\* scenario S3, without an inventory and with one
S3Plan(inv, uh) == PlanRecord(1, 1, 2, <<"upper">>, inv, <<>>, uh)
S3Inputs ==
    {RunInput(S3Catalog, S3Plan(inv, uh), EmptyHistory, NoLastPlan) :
        inv \in {EmptyMap, ("bench" :> 1)}, uh \in BOOLEAN}

\* scenario S4: exercise 10 is in the last two sessions, 11 and 12 are not
S4Histories ==
    {record_workout_session(EmptyHistory, <<10>>),
     record_workout_session(
         record_workout_session(record_workout_session(EmptyHistory, <<11>>), <<10>>),
         <<10>>)}
S4Inputs ==
    {RunInput(S4Catalog,
              PlanRecord(n, n * m, k, <<"upper">>, ("bench" :> 1) @@ ("plyo_box" :> 1),
                         mu, TRUE),
              h, NoLastPlan) :
        n \in {1, 2}, m \in {1, 2}, k \in {1, 2},
        mu \in {<<>>, <<"plyo_box">>, <<"bench">>}, h \in S4Histories}

\* scenario S5: station A of the last plan holds [7, 7, 8]
S5LastPlan ==
    [exists |-> TRUE, stations |-> << [used_exercise_ids |-> <<7, 7, 8>>] >>, seed |-> 10]
S5Inputs ==
    {RunInput(S5Catalog, PlanRecord(1, 1, 3, <<"upper", "lower">>, inv, <<>>, FALSE),
              EmptyHistory, S5LastPlan) :
        inv \in {("bench" :> 1) @@ ("plyo_box" :> 1), ("bench" :> 1), ("dumbbells_3kg" :> 1)}}

\* the state of a process before main() runs
ProcessStart(inputs, retries) ==
    /\ pc = "idle"
    /\ fn_in = None
    /\ fn_out = None
    /\ runs = 0
    /\ \E input \in inputs :
           /\ gear = input.gear
           /\ plan = input.plan
           /\ history_data = input.history_data
           /\ last_plan = input.last_plan
    /\ plan.use_workout_history \/ history_data = EmptyHistory
    /\ max_retries = retries
    /\ include_ids = {}
    /\ crossfit_file = NoCrossfitFile
    /\ driver_pool = <<>>
    /\ attempt = 0
    /\ station_pool = <<>>
    /\ BuildLocalsInit
    /\ EditLocalsInit

Init == ProcessStart(MainInputs \cup S1Inputs \cup S1MustUseInputs \cup S3Inputs
                         \cup S4Inputs \cup S5Inputs,
                     MaxRetries)

\* no process is running
AtRest == pc \in {"idle", "done", "edited", "exit1", "exit2"}

\* f"{name} (Left)" and friends: a step name is a base text and a side
StepName(base, side) == [base |-> base, side |-> side]

\* re.sub(r'\s*\((Left|Right)\)$', '', name)
get_base_exercise_name(name) == StepName(name.base, "")

\* step{n}_id of an emitted step: the id of the exercise the step belongs to
StepId(k) == ExId(k)

\* mutant: both halves of a unilateral exercise carry the bare name
StepsOfBareName(k, available_inventory) ==
    LET entry == [name |-> StepName(ExName(k), ""),
                  equipment |-> select_best_equipment_option(ExEquipment(k),
                                                             available_inventory),
                  id |-> StepId(k)]
    IN IF ExUnilateral(k) THEN <<entry, entry>> ELSE <<entry>>

\* the entries build_plan appends to its step lists for one selected exercise
StepsOf(k, available_inventory) ==
    LET selected_equipment ==
            select_best_equipment_option(ExEquipment(k), available_inventory)
        entry(side) == [name |-> StepName(ExName(k), side),
                        equipment |-> selected_equipment,
                        id |-> StepId(k)]
    IN IF ExUnilateral(k) THEN <<entry("Left"), entry("Right")>> ELSE <<entry("")>>

RECURSIVE StepListOf(_, _)
StepListOf(station_exercises, available_inventory) ==
    IF station_exercises = <<>> THEN <<>>
    ELSE StepsOf(Head(station_exercises), available_inventory)
             \o StepListOf(Tail(station_exercises), available_inventory)

\* while len(step_names) < steps_per_station: duplicate the last entry
RECURSIVE PadSteps(_, _)
PadSteps(step_list, steps_per_station) ==
    IF Len(step_list) < steps_per_station
    THEN PadSteps(Append(step_list, step_list[Len(step_list)]), steps_per_station)
    ELSE step_list

\* mutant: the last step of the list is not written to the station
StationStepsShort(step_list, steps_per_station) ==
    SubSeq(step_list, 1, steps_per_station - 1)

\* for step_idx in range(steps_per_station): the station's step keys
StationSteps(step_list, steps_per_station) ==
    SubSeq(step_list, 1, steps_per_station)

\* station_pool.pop(idx) at the first tuple with this name
RECURSIVE RemoveByName(_, _)
RemoveByName(pool, name) ==
    IF pool = <<>> THEN <<>>
    ELSE IF ExName(Head(pool)) = name THEN Tail(pool)
    ELSE <<Head(pool)>> \o RemoveByName(Tail(pool), name)

RECURSIVE RemoveSelected(_, _)
RemoveSelected(pool, station_exercises) ==
    IF station_exercises = <<>> THEN pool
    ELSE RemoveSelected(RemoveByName(pool, ExName(Head(station_exercises))),
                        Tail(station_exercises))

\* used_exercise_ids.append(exercise_id) for the valid ids
IdsOf(station_exercises) ==
    LET valid == SelectSeq(station_exercises, LAMBDA k : ExId(k) # -1)
    IN [i \in 1..Len(valid) |-> ExId(valid[i])]

\* the draws of random.random() a station can see; none with the history on
ScoreDraws == IF plan.use_workout_history THEN {[k \in 1..Len(gear) |-> 0]} ELSE RandomScores

\* get_variety_score for every catalog position
VarietyScores(random_scores) ==
    [k \in 1..Len(gear) |->
        IF plan.use_workout_history
        THEN calculate_exercise_priority_score(
                 history_data, IF ExId(k) # -1 THEN ExId(k) ELSE 0, 1)
        ELSE random_scores[k]]

\* the closure of find_compatible_exercises_for_station for one call
BuilderContext(must_use_equipment) ==
    [area_target |-> plan.balance_order[(cycle_idx % Len(plan.balance_order)) + 1],
     cumulative_usage |-> cumulative_station_usage,
     available_inventory |-> plan.equipment,
     people_per_station |-> plan.people_per_station,
     must_use_equipment |-> must_use_equipment]

\* mutant: the call without a must-use type is made first
MustUseRoundsPlainFirst(unused_must_use) ==
    << <<>> >> \o [i \in 1..Len(unused_must_use) |-> <<unused_must_use[i]>>]

\* the must_use_equipment argument of each call build_plan makes for a
\* station: one per unused must-use type, then none
MustUseRounds(unused_must_use) ==
    [i \in 1..Len(unused_must_use) |-> <<unused_must_use[i]>>] \o << <<>> >>

RECURSIVE TryRounds(_, _, _)
TryRounds(rounds, i, variety) ==
    IF i > Len(rounds) THEN <<>>
    ELSE FirstNonEmpty(
             find_compatible_exercises_for_station(
                 station_pool, plan.steps_per_station, used_names, variety,
                 BuilderContext(rounds[i])),
             TryRounds(rounds, i + 1, variety))

\* station_exercises of one pass of build_plan's loop
StationExercises(variety) ==
    TryRounds(
        MustUseRounds(prioritize_must_use_exercises(plan.must_use, cumulative_station_usage,
                                                    plan.equipment)),
        1, variety)

\* prioritize_exercises_by_variety: the pool, best variety score first
prioritize_exercises_by_variety(exercise_pool, h) ==
    SortDescInto(<<>>, exercise_pool,
                 [k \in Range(exercise_pool) |->
                     IF ExId(k) = -1 THEN 10
                     ELSE calculate_exercise_priority_score(h, ExId(k), 1)])

\* station_pool of generate_workout_with_retries before its loop
InitialPool ==
    IF plan.use_workout_history /\ history_data.total_workouts_generated > 0
    THEN prioritize_exercises_by_variety(build_station_pool(plan.equipment), history_data)
    ELSE build_station_pool(plan.equipment)

\* main(): no id of the -include list is an id of the catalog; sys.exit(1)
IncludeRefused ==
    /\ include_ids # {}
    /\ include_ids \cap {ExId(k) : k \in {x \in 1..Len(gear) : ExId(x) # -1}} = {}

\* plan.get("crossfit_path", False), and the file is there: setup_crossfit_path
\* leaves crossfit_path on
CrossfitMode ==
    /\ "crossfit_path" \in DOMAIN plan
    /\ plan.crossfit_path
    /\ crossfit_file.exists

\* setup_crossfit_path: the entries without skip, in file order
setup_crossfit_path(entries) ==
    LET kept == SelectSeq(entries, LAMBDA activity : ~activity.skip)
    IN [i \in 1..Len(kept) |-> [name |-> kept[i].name, id |-> kept[i].id]]

\* available_exercises[:crossfit_path_count], for a count >= 0
exercises_to_use(available_exercises) ==
    LET crossfit_path_count ==
            IF "crossfit_path_count" \in DOMAIN plan
            THEN plan.crossfit_path_count
            ELSE Len(available_exercises)
    IN SubSeq(available_exercises, 1,
              IF crossfit_path_count < Len(available_exercises)
              THEN crossfit_path_count ELSE Len(available_exercises))

\* generate_crossfit_path_workout: the single station of the result
CrossfitStation(available_exercises) ==
    [letter |-> "A",
     area |-> "crossfit_path",
     steps |-> [n \in 1..Len(exercises_to_use(available_exercises)) |->
                   [name |-> exercises_to_use(available_exercises)[n].name,
                    id |-> exercises_to_use(available_exercises)[n].id,
                    equipment |-> EmptyMap]]]

\* main() starts a generation run: the -include ids are validated, then the
\* pool is built once, before the attempts
StartRun ==
    /\ AtRest
    /\ ~last_plan.exists
    /\ pc' = IF IncludeRefused THEN "exit1"
             ELSE IF build_station_pool(plan.equipment) = <<>> THEN "exit2"
             ELSE "attempt"
    /\ driver_pool' = IF IncludeRefused THEN <<>> ELSE InitialPool
    /\ attempt' = 0
    /\ station_pool' = <<>>
    /\ used_names' = {}
    /\ used_exercise_ids' = <<>>
    /\ cumulative_station_usage' = EmptyMap
    /\ stations' = <<>>
    /\ cycle_idx' = 0
    /\ UNCHANGED <<fnVars, histVars, inputVars, last_plan, editVars>>

\* for attempt in range(1, max_retries + 1): shuffle, then build_plan on a copy
StartAttempt ==
    /\ pc = "attempt"
    /\ ~CrossfitMode
    /\ pc' = "building"
    /\ attempt' = attempt + 1
    /\ driver_pool' \in Shuffles(driver_pool)
    /\ station_pool' = driver_pool'
    /\ used_names' = {}
    /\ used_exercise_ids' = <<>>
    /\ cumulative_station_usage' = EmptyMap
    /\ stations' = <<>>
    /\ cycle_idx' = 0
    /\ UNCHANGED <<fnVars, histVars, inputVars, last_plan, editVars>>

\* what one pass of build_plan's while loop computes from its selection
StationOutcome(station_exercises) ==
    LET step_list == PadSteps(StepListOf(station_exercises, plan.equipment),
                              plan.steps_per_station)
        step_equipments == [i \in 1..Len(step_list) |-> step_list[i].equipment]
        station_requirements ==
            get_station_equipment_requirements(step_equipments, plan.people_per_station)
        usage == AddUsage(cumulative_station_usage, station_requirements)
        popped == RemoveSelected(station_pool, station_exercises)
    IN [station_data |->
            [area |-> BuilderContext(<<>>).area_target,
             steps |-> StationSteps(step_list, plan.steps_per_station),
             station_exercises |-> station_exercises,
             step_equipments |-> step_equipments],
        used_names |-> used_names \cup {ExName(station_exercises[i]) :
                                           i \in 1..Len(station_exercises)},
        used_exercise_ids |-> used_exercise_ids \o IdsOf(station_exercises),
        cumulative_station_usage |-> usage,
        station_pool |->
            IF plan.equipment # EmptyMap
            THEN filter_exercises_by_remaining_equipment(
                     popped, usage, plan.equipment, plan.people_per_station)
            ELSE popped]

\* one pass of build_plan's while loop that admits a station
BuildStation ==
    /\ pc = "building"
    /\ Len(stations) < plan.stations
    /\ station_pool # <<>>
    /\ \E random_scores \in ScoreDraws :
       \E station_exercises \in {StationExercises(VarietyScores(random_scores))} \ {<<>>} :
       \E outcome \in {StationOutcome(station_exercises)} :
           /\ used_names' = outcome.used_names
           /\ used_exercise_ids' = outcome.used_exercise_ids
           /\ cumulative_station_usage' = outcome.cumulative_station_usage
           /\ stations' = Append(stations, outcome.station_data)
           /\ station_pool' = outcome.station_pool
    /\ cycle_idx' = cycle_idx + 1
    /\ UNCHANGED <<pc, fnVars, histVars, inputVars, driver_pool, attempt, last_plan,
                   editVars>>

\* build_plan dies and its frame is dropped; generate_workout_with_retries
\* retries or re-raises
BuildFails ==
    /\ pc = "building"
    /\ Len(stations) < plan.stations
    /\ \/ station_pool = <<>>
       \/ \E random_scores \in ScoreDraws :
              StationExercises(VarietyScores(random_scores)) = <<>>
    /\ pc' = IF attempt < max_retries THEN "attempt" ELSE "exit2"
    /\ driver_pool' = IF attempt < max_retries THEN driver_pool ELSE <<>>
    /\ station_pool' = <<>>
    /\ used_names' = {}
    /\ used_exercise_ids' = <<>>
    /\ cumulative_station_usage' = EmptyMap
    /\ stations' = <<>>
    /\ cycle_idx' = 0
    /\ UNCHANGED <<fnVars, histVars, inputVars, attempt, last_plan, editVars>>

\* save_workout_html: the per-station ids of LAST_WORKOUT_PLAN.json
StationIds(station) ==
    LET with_id == SelectSeq(station.steps, LAMBDA st : st.id # -1)
    IN [used_exercise_ids |-> [i \in 1..Len(with_id) |-> with_id[i].id]]

\* build_plan returned; main() saves the plan
SavePlan ==
    /\ pc = "building"
    /\ Len(stations) = plan.stations
    /\ pc' = "saved"
    /\ \E seed \in ClockSeeds :
           last_plan' = [exists |-> TRUE,
                         stations |-> [i \in 1..Len(stations) |-> StationIds(stations[i])],
                         seed |-> StoredSeed(seed)]
    /\ UNCHANGED <<fnVars, histVars, inputVars, buildVars, editVars>>

\* main() records the session and the process ends
RecordSession ==
    /\ pc = "saved"
    /\ pc' = "done"
    /\ history_data' = main_record(history_data, plan.use_workout_history,
                                   used_exercise_ids)
    /\ runs' = runs + 1
    /\ driver_pool' = <<>>
    /\ attempt' = 0
    /\ station_pool' = <<>>
    /\ used_names' = {}
    /\ used_exercise_ids' = <<>>
    /\ cumulative_station_usage' = EmptyMap
    /\ stations' = <<>>
    /\ cycle_idx' = 0
    /\ UNCHANGED <<fnVars, inputVars, last_plan, editVars>>

\* an attempt in CrossFit path mode: generate_crossfit_path_workout takes the
\* place of build_plan; its die() is caught like build_plan's
CrossfitAttempt ==
    /\ pc = "attempt"
    /\ CrossfitMode
    /\ attempt' = attempt + 1
    /\ \E crossfit_path_pool \in {setup_crossfit_path(crossfit_file.entries)} :
           IF crossfit_path_pool = <<>>
           THEN /\ pc' = IF attempt + 1 < max_retries THEN "attempt" ELSE "exit2"
                /\ driver_pool' \in IF attempt + 1 < max_retries
                                     THEN Shuffles(driver_pool) ELSE {<<>>}
                /\ stations' = <<>>
                /\ used_exercise_ids' = <<>>
           ELSE /\ pc' = "generated"
                /\ driver_pool' \in Shuffles(driver_pool)
                /\ stations' = <<CrossfitStation(crossfit_path_pool)>>
                /\ used_exercise_ids' =
                       StationIds(CrossfitStation(crossfit_path_pool)).used_exercise_ids
    /\ station_pool' = <<>>
    /\ used_names' = {}
    /\ cumulative_station_usage' = EmptyMap
    /\ cycle_idx' = 0
    /\ UNCHANGED <<fnVars, histVars, inputVars, last_plan, editVars>>

\* generate_workout_with_retries returned the CrossFit path result; main()
\* saves it
SaveCrossfitPlan ==
    /\ pc = "generated"
    /\ pc' = "saved"
    /\ \E seed \in ClockSeeds :
           last_plan' = [exists |-> TRUE,
                         stations |-> [i \in 1..Len(stations) |-> StationIds(stations[i])],
                         seed |-> StoredSeed(seed)]
    /\ UNCHANGED <<fnVars, histVars, inputVars, buildVars, editVars>>

-----------------------------------------------------------------------------
(* The edit run: main.py *)

\* get_exercise_by_id: the first pool entry with this id, 0 for None
get_exercise_by_id(ex_id, pool) ==
    IF \E i \in 1..Len(pool) : ExId(pool[i]) = ex_id
    THEN pool[CHOOSE i \in 1..Len(pool) :
                  /\ ExId(pool[i]) = ex_id
                  /\ \A j \in 1..(i - 1) : ExId(pool[j]) # ex_id]
    ELSE 0

\* dicts filled in pool order keep the last entry written under a key
base_name_to_id(pool, base_name) ==
    ExId(pool[CHOOSE i \in 1..Len(pool) :
                  /\ get_base_exercise_name(StepName(ExName(pool[i]), "")) = base_name
                  /\ \A j \in (i + 1)..Len(pool) :
                         get_base_exercise_name(StepName(ExName(pool[j]), "")) # base_name])

id_to_name(pool, ex_id) ==
    ExName(pool[CHOOSE i \in 1..Len(pool) :
                    /\ ExId(pool[i]) = ex_id
                    /\ \A j \in (i + 1)..Len(pool) : ExId(pool[j]) # ex_id])

\* the steps reconstruct_stations_from_ids builds for ids[i..]; random_pick
\* stands for random.choice(pool) when an id is not in the pool
RECURSIVE ProcessedSteps(_, _, _, _)
ProcessedSteps(ids, i, pool, random_pick) ==
    IF i > Len(ids) THEN <<>>
    ELSE LET ex_id == ids[i]
             found == get_exercise_by_id(ex_id, pool)
             ex == IF found = 0 THEN random_pick ELSE found
             base_name == get_base_exercise_name(StepName(ExName(ex), ""))
             canonical_id == base_name_to_id(pool, base_name)
             canonical_name == id_to_name(pool, canonical_id)
             is_unilateral_pair == i + 1 <= Len(ids) /\ ids[i + 1] = ex_id
             step(side) == [name |-> StepName(canonical_name, side),
                            equipment |-> AsMap(ExEquipment(ex)),
                            id |-> canonical_id,
                            area |-> ExArea(ex)]
         IN IF is_unilateral_pair
            THEN <<step("Left"), step("Right")>> \o ProcessedSteps(ids, i + 2, pool, random_pick)
            ELSE <<step("")>> \o ProcessedSteps(ids, i + 1, pool, random_pick)

\* the second pass: station_data['area'] comes from the first processed step
RebuiltArea(processed_steps, sidx, balance_order) ==
    IF processed_steps = <<>> THEN "" ELSE processed_steps[1].area

reconstruct_stations_from_ids(stations_ids, pool, random_pick) ==
    [sidx \in 1..Len(stations_ids) |->
        LET processed_steps ==
                ProcessedSteps(stations_ids[sidx].used_exercise_ids, 1, pool, random_pick)
        IN [area |-> RebuiltArea(processed_steps, sidx, plan.balance_order),
            steps |-> [n \in 1..Len(processed_steps) |->
                          [name |-> processed_steps[n].name,
                           equipment |-> processed_steps[n].equipment,
                           id |-> processed_steps[n].id]]]]

\* every id stored in the stations of a last plan
StoredIds(stations_ids) ==
    UNION {Range(stations_ids[sidx].used_exercise_ids) : sidx \in 1..Len(stations_ids)}

\* all (station, step) positions in reading order
RECURSIVE AllPositions(_, _)
AllPositions(stations_ids, sidx) ==
    IF sidx > Len(stations_ids) THEN <<>>
    ELSE [i \in 1..Len(stations_ids[sidx].used_exercise_ids) |-> <<sidx, i>>]
             \o AllPositions(stations_ids, sidx + 1)

IdAt(stations_ids, position) ==
    stations_ids[position[1]].used_exercise_ids[position[2]]

\* mutant: every position of a station that holds the id
PositionsOfStation(stations_ids, eid) ==
    SelectSeq(AllPositions(stations_ids, 1), LAMBDA pos :
        eid \in Range(stations_ids[pos[1]].used_exercise_ids))

\* locations_by_id[eid]
PositionsOf(stations_ids, eid) ==
    SelectSeq(AllPositions(stations_ids, 1), LAMBDA pos : IdAt(stations_ids, pos) = eid)

\* locations_by_id in the insertion order of its keys
RECURSIVE LocationsFrom(_, _, _, _)
LocationsFrom(stations_ids, positions, replace, seen) ==
    IF positions = <<>> THEN <<>>
    ELSE LET eid == IdAt(stations_ids, Head(positions))
         IN IF eid \in replace /\ eid \notin seen
            THEN <<[old_id |-> eid, positions |-> PositionsOf(stations_ids, eid)]>>
                     \o LocationsFrom(stations_ids, Tail(positions), replace, seen \cup {eid})
            ELSE LocationsFrom(stations_ids, Tail(positions), replace, seen)

\* step names of the rebuilt stations
NamesOf(rebuilt_stations) ==
    UNION {{rebuilt_stations[sidx].steps[n].name :
               n \in 1..Len(rebuilt_stations[sidx].steps)} :
           sidx \in 1..Len(rebuilt_stations)}

\* current_stations[sidx]['used_exercise_ids'][step_idx] = new_id
SetIdAt(stations_ids, position, new_id) ==
    [stations_ids EXCEPT ![position[1]].used_exercise_ids[position[2]] = new_id]

RECURSIVE SetIdAtAll(_, _, _)
SetIdAtAll(stations_ids, positions, new_id) ==
    IF positions = <<>> THEN stations_ids
    ELSE SetIdAtAll(SetIdAt(stations_ids, Head(positions), new_id), Tail(positions), new_id)

\* ids a command line can name: the catalog's and one unknown id
EditIdChoices == {ExId(k) : k \in 1..Len(gear)} \cup {0}

EditLocalsReset ==
    /\ ids_to_replace' = {}
    /\ current_stations' = <<>>
    /\ locations_by_id' = <<>>
    /\ already_used' = {}
    /\ all_used_names' = {}

\* pool of the edit run: built afresh, in catalog order
EditPool == build_station_pool(plan.equipment)

\* main() with -edit: validation and the set-up of the replacement loop
EditBegin(edit_ids) ==
    /\ AtRest
    /\ fn_out' = None
    /\ LET filtered_edit_ids == edit_ids \cap StoredIds(last_plan.stations)
       IN IF ~last_plan.exists \/ filtered_edit_ids = {}
          THEN /\ pc' = "exit1"
               /\ fn_in' = None
               /\ EditLocalsReset
          ELSE /\ pc' = "replacing"
               /\ fn_in' = [edit_ids |-> edit_ids]
               /\ ids_to_replace' = filtered_edit_ids
               /\ current_stations' = last_plan.stations
               /\ locations_by_id' =
                      LocationsFrom(last_plan.stations, AllPositions(last_plan.stations, 1),
                                    filtered_edit_ids, {})
               /\ already_used' = StoredIds(last_plan.stations) \ filtered_edit_ids
               /\ all_used_names' =
                      NamesOf(reconstruct_stations_from_ids(last_plan.stations, EditPool,
                                                            EditPool[1]))
    /\ UNCHANGED <<histVars, inputVars, buildVars, last_plan>>

\* the head of the replacement loop
OldId == Head(locations_by_id).old_id
Positions == Head(locations_by_id).positions
OriginalUnilateral ==
    IF get_exercise_by_id(OldId, EditPool) = 0 THEN FALSE
    ELSE ExUnilateral(get_exercise_by_id(OldId, EditPool))
IntendedArea ==
    plan.balance_order[((Positions[1][1] - 1) % Len(plan.balance_order)) + 1]

\* mutant: the candidates are not held to the intended area
CandidatesAnyArea(sides) ==
    {k \in Range(EditPool) :
        /\ ExId(k) # -1
        /\ ExId(k) \notin already_used
        /\ ExId(k) \notin ids_to_replace
        /\ StepName(ExName(k), "") \notin all_used_names
        /\ ExUnilateral(k) \in sides}

\* the candidate comprehensions of the three cases; sides is the set of
\* unilateral flags the case accepts
Candidates(sides) ==
    {k \in Range(EditPool) :
        /\ ExId(k) # -1
        /\ ExId(k) \notin already_used
        /\ ExId(k) \notin ids_to_replace
        /\ StepName(ExName(k), "") \notin all_used_names
        /\ ExUnilateral(k) \in sides
        /\ ExArea(k) = IntendedArea}

\* mutant: the chosen replacements are not entered into already_used and
\* all_used_names
ReplacedUnrecorded(new_stations, chosen) ==
    /\ current_stations' = new_stations
    /\ locations_by_id' = Tail(locations_by_id)
    /\ UNCHANGED <<pc, fnVars, histVars, inputVars, buildVars, last_plan, ids_to_replace,
                   already_used, all_used_names>>

\* the bookkeeping every successful replacement ends with
Replaced(new_stations, chosen) ==
    /\ current_stations' = new_stations
    /\ already_used' = already_used \cup {ExId(k) : k \in chosen}
    /\ all_used_names' = all_used_names \cup {StepName(ExName(k), "") : k \in chosen}
    /\ locations_by_id' = Tail(locations_by_id)
    /\ UNCHANGED <<pc, fnVars, histVars, inputVars, buildVars, last_plan, ids_to_replace>>

\* Case 1, option A: one unilateral exercise fills both positions
EditReplaceUnilateral ==
    /\ pc = "replacing" /\ locations_by_id # <<>>
    /\ OriginalUnilateral /\ Len(Positions) = 2
    /\ \E new_ex \in Candidates({TRUE}) :
           Replaced(SetIdAtAll(current_stations, Positions, ExId(new_ex)), {new_ex})

\* Case 1, option B: two different bilateral exercises, one per position
EditReplaceTwoBilateral ==
    /\ pc = "replacing" /\ locations_by_id # <<>>
    /\ OriginalUnilateral /\ Len(Positions) = 2
    /\ Candidates({TRUE}) = {}
    /\ \E first \in Candidates({FALSE}) : \E second \in Candidates({FALSE}) \ {first} :
           Replaced(SetIdAt(SetIdAt(current_stations, Positions[1], ExId(first)),
                            Positions[2], ExId(second)),
                    {first, second})

\* Case 2: a bilateral exercise at one position
EditReplaceBilateral ==
    /\ pc = "replacing" /\ locations_by_id # <<>>
    /\ ~OriginalUnilateral /\ Len(Positions) = 1
    /\ \E new_ex \in Candidates({FALSE}) :
           Replaced(SetIdAt(current_stations, Positions[1], ExId(new_ex)), {new_ex})

\* the fallback: any candidate of the area, written to every position
EditReplaceFallback ==
    /\ pc = "replacing" /\ locations_by_id # <<>>
    /\ ~(OriginalUnilateral /\ Len(Positions) = 2)
    /\ ~(~OriginalUnilateral /\ Len(Positions) = 1)
    /\ \E new_ex \in Candidates({TRUE, FALSE}) :
           Replaced(SetIdAtAll(current_stations, Positions, ExId(new_ex)), {new_ex})

\* sys.exit(1) of whichever case applies; nothing was written
EditNoReplacement ==
    /\ pc = "replacing" /\ locations_by_id # <<>>
    /\ IF OriginalUnilateral /\ Len(Positions) = 2
       THEN Candidates({TRUE}) = {} /\ Cardinality(Candidates({FALSE})) < 2
       ELSE IF ~OriginalUnilateral /\ Len(Positions) = 1
       THEN Candidates({FALSE}) = {}
       ELSE Candidates({TRUE, FALSE}) = {}
    /\ pc' = "exit1"
    /\ fn_in' = None
    /\ EditLocalsReset
    /\ UNCHANGED <<fn_out, histVars, inputVars, buildVars, last_plan>>

\* mutant: the report is regenerated with the seed of the replacement run
EditPersistFreshSeed ==
    /\ pc = "replacing" /\ locations_by_id = <<>>
    /\ pc' = "edited"
    /\ \E new_seed \in FreshSeeds :
           last_plan' = [last_plan EXCEPT !.stations = current_stations,
                                          !.seed = StoredSeed(new_seed)]
    /\ fn_in' = None
    /\ EditLocalsReset
    /\ UNCHANGED <<fn_out, histVars, inputVars, buildVars>>

\* last_plan_data['stations'] = current_stations; json.dump(last_plan_data);
\* then save_workout_html(..., seed=last_plan_data.get('seed'))
EditPersist ==
    /\ pc = "replacing" /\ locations_by_id = <<>>
    /\ pc' = "edited"
    /\ last_plan' = [last_plan EXCEPT !.stations = current_stations,
                                      !.seed = StoredSeed(last_plan.seed)]
    /\ fn_in' = None
    /\ EditLocalsReset
    /\ UNCHANGED <<fn_out, histVars, inputVars, buildVars>>

Next ==
    \/ StartRun
    \/ StartAttempt
    \/ BuildStation
    \/ BuildFails
    \/ SavePlan
    \/ RecordSession
    \/ \E edit_ids \in {E \in SUBSET EditIdChoices : Cardinality(E) \in 1..MaxEdits} :
           EditBegin(edit_ids)
    \/ EditReplaceUnilateral
    \/ EditReplaceTwoBilateral
    \/ EditReplaceBilateral
    \/ EditReplaceFallback
    \/ EditNoReplacement
    \/ EditPersist

Spec == Init /\ [][Next]_vars

-----------------------------------------------------------------------------
(* C1 *)

\* a generation attempt is inside build_plan or has just returned from it
InBuildPlan == pc \in {"building", "saved"}

\* the requirement of admitted station s, from its full step list
StationRequirement(s) ==
    get_station_equipment_requirements(stations[s].step_equipments, plan.people_per_station)

SumOverStations(t) ==
    SeqSum([s \in 1..Len(stations) |-> GetCount(StationRequirement(s), t)])

AccountedTypes ==
    DOMAIN cumulative_station_usage \cup UNION {DOMAIN StationRequirement(s) : s \in 1..Len(stations)}

\* C1: with a non-empty inventory, after every admitted station the cumulative
\* usage of every equipment type is the sum of the admitted stations'
\* requirements and does not exceed the inventory count of the type.
C1_InventoryRespected ==
    (InBuildPlan /\ plan.equipment # EmptyMap) =>
        \A t \in AccountedTypes :
            /\ GetCount(cumulative_station_usage, t) = SumOverStations(t)
            /\ SumOverStations(t) <= GetCount(plan.equipment, t)

\* two stations hold dumbbells_5kg and together they exhaust the inventory
C1_Witness ==
    /\ InBuildPlan
    /\ Len(stations) = 2
    /\ GetCount(StationRequirement(1), "dumbbells_5kg") > 0
    /\ GetCount(StationRequirement(2), "dumbbells_5kg") > 0
    /\ SumOverStations("dumbbells_5kg") = GetCount(plan.equipment, "dumbbells_5kg")

-----------------------------------------------------------------------------
(* C2 *)

\* C2: in every emitted station a step named "(Left)" is immediately followed
\* by the "(Right)" step of the same base name, id and equipment map.
C2_UnilateralPairing ==
    InBuildPlan =>
        \A s \in 1..Len(stations) : \A n \in 1..Len(stations[s].steps) :
            stations[s].steps[n].name.side = "Left" =>
                /\ n + 1 <= Len(stations[s].steps)
                /\ stations[s].steps[n + 1] =
                       [stations[s].steps[n] EXCEPT !.name.side = "Right"]

-----------------------------------------------------------------------------
(* C3 *)

StepPositions == {<<s, n>> \in (1..Len(stations)) \X (1..MaxSteps) : n <= Len(stations[s].steps)}

SelectedNames(s) ==
    {ExName(stations[s].station_exercises[i]) : i \in 1..Len(stations[s].station_exercises)}

\* C3: no two steps of the plan share a name, and no exercise name selected
\* for a station is selected again for a later station of the attempt.
C3_NamesUnique ==
    InBuildPlan =>
        /\ \A p, q \in StepPositions :
               p # q => stations[p[1]].steps[p[2]].name # stations[q[1]].steps[q[2]].name
        /\ \A s, r \in 1..Len(stations) : s # r => SelectedNames(s) \cap SelectedNames(r) = {}

\* a two-station plan with a unilateral pair has been returned
C3_Witness ==
    /\ pc = "saved"
    /\ Len(stations) = 2
    /\ Cardinality(StepPositions) >= 3
    /\ \E p \in StepPositions : stations[p[1]].steps[p[2]].name.side = "Right"

-----------------------------------------------------------------------------
(* C4 *)

BalanceArea(s) == plan.balance_order[((s - 1) % Len(plan.balance_order)) + 1]

\* the stations an edit run rebuilds from the ids it has just persisted
RebuiltAfterEdit == reconstruct_stations_from_ids(last_plan.stations, EditPool, EditPool[1])

\* C4: station s of a generated plan has area balance_order[s mod |balance_order|],
\* and so has every station of the plan rebuilt after an edit replacement.
C4_AreaBalance ==
    /\ InBuildPlan => \A s \in 1..Len(stations) : stations[s].area = BalanceArea(s)
    /\ pc = "edited" =>
           \A s \in 1..Len(last_plan.stations) : RebuiltAfterEdit[s].area = BalanceArea(s)

-----------------------------------------------------------------------------
(* C5 *)

\* C5: every emitted station has at least steps_per_station steps, and more
\* than that only when a unilateral exercise was admitted to the station.
C5_StepCount ==
    InBuildPlan =>
        \A s \in 1..Len(stations) :
            /\ Len(stations[s].steps) >= plan.steps_per_station
            /\ Len(stations[s].steps) > plan.steps_per_station =>
                   \E i \in 1..Len(stations[s].station_exercises) :
                       ExUnilateral(stations[s].station_exercises[i])

\* a station that admitted a unilateral exercise has been emitted
C5_Witness ==
    /\ InBuildPlan
    /\ \E s \in 1..Len(stations) :
           /\ \E i \in 1..Len(stations[s].station_exercises) :
                  ExUnilateral(stations[s].station_exercises[i])
           /\ Len(stations[s].steps) = plan.steps_per_station
           /\ plan.steps_per_station = MaxSteps

-----------------------------------------------------------------------------
(* C6 *)

\* largest member of a finite non-empty set of numbers
MaxOf(S) == CHOOSE m \in S : \A x \in S : x <= m

ReqStepCounts(t) ==
    {GetCount(fn_in.step_equipments[i], t) : i \in 1..Len(fn_in.step_equipments)}

\* one token per unit of type t required by some step
ReqUnits(t) ==
    {<<i, k>> \in (1..Len(fn_in.step_equipments)) \X (1..MaxCount) :
        k <= GetCount(fn_in.step_equipments[i], t)}

ReqExpected(t) ==
    IF fn_in.people_per_station = 1
    THEN MaxOf(ReqStepCounts(t) \cup {0})
    ELSE Cardinality(ReqUnits(t))

\* C6: get_station_equipment_requirements returns, per equipment type, the
\* maximum of the per-step counts when people_per_station = 1 and their sum
\* when people_per_station = 2 (a missing type counts 0), and leaves out the
\* types whose result is 0.
C6_SequentialMaxSimultaneousSum ==
    pc = "return" =>
        \A t \in ReqTypes :
            IF ReqExpected(t) > 0
            THEN t \in DOMAIN fn_out /\ fn_out[t] = ReqExpected(t)
            ELSE t \notin DOMAIN fn_out

\* a sequential station whose two steps need 1 and 2 benches needs 2, and a
\* type listed with count 0 is left out
C6_Witness ==
    /\ pc = "return"
    /\ fn_in.people_per_station = 1
    /\ Len(fn_in.step_equipments) = 2
    /\ GetCount(fn_in.step_equipments[1], "bench") = 1
    /\ GetCount(fn_in.step_equipments[2], "bench") = 2
    /\ "plyo_box" \in DOMAIN fn_in.step_equipments[1]
    /\ GetCount(fn_out, "bench") = 2
    /\ "plyo_box" \notin DOMAIN fn_out

-----------------------------------------------------------------------------
(* C7 *)

\* id occurs in one of the last n recorded sessions
UsedInLast(n, id) ==
    \E i \in 1..Len(history_data.workout_sessions) :
        /\ i > Len(history_data.workout_sessions) - n
        /\ \E j \in 1..Len(history_data.workout_sessions[i].used_exercise_ids) :
               history_data.workout_sessions[i].used_exercise_ids[j] = id

ScheduleFactor(id) ==
    CASE UsedInLast(2, id) -> 1
      [] ~UsedInLast(2, id) /\ UsedInLast(5, id) -> 5
      [] ~UsedInLast(5, id) /\ GetCount(history_data.exercise_usage_count, id) = 0 -> 15
      [] ~UsedInLast(5, id) /\ GetCount(history_data.exercise_usage_count, id) = 1 -> 12
      [] OTHER -> 10

\* C7: calculate_exercise_priority_score(id, base) is 0.1*base when id was
\* used in the last 2 sessions, else 0.5*base when used in the last 5, else
\* 1.5*base when never used, else 1.2*base when used once, else base
\* (scores in tenths).
C7_PrioritySchedule ==
    pc = "queried" =>
        fn_out = fn_in.base_priority * ScheduleFactor(fn_in.exercise_id)

\* an exercise used exactly once, three sessions ago, scores 0.5 and not 1.2
C7_Witness ==
    /\ pc = "queried"
    /\ fn_in.base_priority = 1
    /\ ~UsedInLast(2, fn_in.exercise_id)
    /\ UsedInLast(5, fn_in.exercise_id)
    /\ GetCount(history_data.exercise_usage_count, fn_in.exercise_id) = 1
    /\ fn_out = 5

-----------------------------------------------------------------------------
(* C8 *)

SessionOf(ids) == [used_exercise_ids |-> ids, exercise_count |-> Len(ids)]

SessionsKeptAfter(ids) ==
    LET all == Append(history_data.workout_sessions, SessionOf(ids))
    IN IF Len(all) <= SessionLimit THEN all
       ELSE [i \in 1..SessionLimit |-> all[i + Len(all) - SessionLimit]]

\* C8 as stated: every successful generation run increases
\* total_workouts_generated by exactly 1, and workout_sessions holds at most
\* 10 entries, the most recently recorded ones in recording order.
C8_Original ==
    [][runs' = runs + 1 =>
        /\ history_data'.total_workouts_generated =
               history_data.total_workouts_generated + 1
        /\ history_data'.workout_sessions = SessionsKeptAfter(fn_in'.used_exercise_ids)]_vars

\* C8 amended: a successful generation run with history enabled and a
\* non-empty used-id list increases total_workouts_generated by exactly 1 and
\* leaves workout_sessions as the at most 10 most recently recorded sessions
\* in recording order; a successful run with history disabled or with no
\* used ids leaves the history untouched.
C8_HistoryMonotonic ==
    [][runs' = runs + 1 =>
        IF fn_in'.history_enabled /\ fn_in'.used_exercise_ids # <<>>
        THEN /\ history_data'.total_workouts_generated =
                    history_data.total_workouts_generated + 1
             /\ history_data'.workout_sessions =
                    SessionsKeptAfter(fn_in'.used_exercise_ids)
             /\ Len(history_data'.workout_sessions) <= SessionLimit
        ELSE history_data' = history_data]_vars

\* the eleventh recorded session has pushed the first one out
C8_Witness ==
    /\ pc = "ran"
    /\ history_data.total_workouts_generated = SessionLimit + 1
    /\ Len(history_data.workout_sessions) = SessionLimit
    /\ history_data.workout_sessions[1].used_exercise_ids = <<2, 3>>
    /\ history_data.workout_sessions[SessionLimit].used_exercise_ids = <<1>>
    /\ GetCount(history_data.exercise_usage_count, 1) = 2

-----------------------------------------------------------------------------
(* C9 *)

IdsOfStation(plan_data, s) == plan_data.stations[s].used_exercise_ids

\* C9: when an edit run persists its result, every position that held an id
\* outside the edit set still holds it, and no station's id list changed length.
C9_EditFrame ==
    [][(pc = "replacing" /\ pc' = "edited") =>
          /\ Len(last_plan'.stations) = Len(last_plan.stations)
          /\ \A s \in 1..Len(last_plan.stations) :
                 /\ Len(IdsOfStation(last_plan', s)) = Len(IdsOfStation(last_plan, s))
                 /\ \A i \in 1..Len(IdsOfStation(last_plan, s)) :
                        IdsOfStation(last_plan, s)[i] \notin fn_in.edit_ids =>
                            IdsOfStation(last_plan', s)[i] = IdsOfStation(last_plan, s)[i]]_vars

\* the replacement loop has ended with a changed station that keeps an id
C9_Witness ==
    /\ pc = "replacing"
    /\ locations_by_id = <<>>
    /\ \E s \in 1..Len(current_stations) :
           /\ current_stations[s] # last_plan.stations[s]
           /\ \E i \in 1..Len(IdsOfStation(last_plan, s)) :
                  /\ IdsOfStation(last_plan, s)[i] \notin fn_in.edit_ids
                  /\ current_stations[s].used_exercise_ids[i] = IdsOfStation(last_plan, s)[i]

-----------------------------------------------------------------------------
(* C10 *)

\* the stations rebuilt from the ids save_workout_html has just written
RebuiltFromSaved == reconstruct_stations_from_ids(last_plan.stations, EditPool, EditPool[1])

\* C10: rebuilding the stations from the persisted ids alone yields, station by
\* station and step by step, the names, ids and equipment maps build_plan emitted.
C10_RoundTrip ==
    pc = "saved" =>
        \A s \in 1..Len(stations) : RebuiltFromSaved[s].steps = stations[s].steps

-----------------------------------------------------------------------------
(* C11 *)

\* the edit run of scenario S5 is about to replace exercise 7
S5Pending ==
    /\ pc = "replacing"
    /\ last_plan.stations = S5LastPlan.stations
    /\ ids_to_replace = {7}
    /\ locations_by_id # <<>>

\* ids of the pool's exercises of station A's area, other than 7 and 8
S5Eligible(unilateral) ==
    {ExId(k) : k \in {x \in Range(EditPool) :
                        /\ ExUnilateral(x) = unilateral
                        /\ ExArea(x) = plan.balance_order[1]
                        /\ ExId(x) \notin {7, 8}}}

\* C11: with station A = [7,7,8], 7 unilateral and the edit set {7}, the edit
\* writes [X,X,8] for a unilateral X of the intended area; only when there is
\* no such X it writes [Y,Z,8] for two distinct bilateral Y, Z of that area;
\* with fewer than two of those it fails and the stored plan is unchanged.
C11_EditUnilateralPair ==
    [][S5Pending =>
          IF S5Eligible(TRUE) # {}
          THEN /\ pc' = "replacing"
               /\ \E x \in S5Eligible(TRUE) :
                      current_stations'[1].used_exercise_ids = <<x, x, 8>>
          ELSE IF Cardinality(S5Eligible(FALSE)) >= 2
          THEN /\ pc' = "replacing"
               /\ \E y \in S5Eligible(FALSE) : \E z \in S5Eligible(FALSE) \ {y} :
                      current_stations'[1].used_exercise_ids = <<y, z, 8>>
          ELSE /\ pc' = "exit1"
               /\ last_plan' = last_plan]_vars

\* two bilateral exercises have replaced the pair
C11_Witness ==
    /\ pc = "replacing"
    /\ last_plan.stations = S5LastPlan.stations
    /\ ids_to_replace = {7}
    /\ locations_by_id = <<>>
    /\ current_stations[1].used_exercise_ids[1] # current_stations[1].used_exercise_ids[2]
    /\ current_stations[1].used_exercise_ids[3] = 8

-----------------------------------------------------------------------------
(* C12 *)

\* the replacement loop of an edit run has handled every id
EditCompleted == pc = "replacing" /\ locations_by_id = <<>>

\* positions of the stored plan whose id is in the edit set, and the ids kept
ReplacedPositions ==
    {pos \in Range(AllPositions(last_plan.stations, 1)) :
        IdAt(last_plan.stations, pos) \in ids_to_replace}
KeptIds ==
    {IdAt(last_plan.stations, pos) :
        pos \in Range(AllPositions(last_plan.stations, 1)) \ ReplacedPositions}

\* two neighbouring positions of one station
PairedPositions(p, q) == p[1] = q[1] /\ (p[2] = q[2] + 1 \/ q[2] = p[2] + 1)

\* C12: after an edit completes, every replacement id differs from every kept
\* id and from every id of the edit set; two replaced positions hold the same
\* id only as the pair of one replaced exercise; and no id occupies two
\* different positions of the rewritten plan other than such a pair.
C12_EditNoDuplicates ==
    EditCompleted =>
        /\ \A p \in ReplacedPositions :
               IdAt(current_stations, p) \notin (KeptIds \cup ids_to_replace)
        /\ \A p \in ReplacedPositions : \A q \in ReplacedPositions \ {p} :
               IdAt(current_stations, p) = IdAt(current_stations, q) =>
                   IdAt(last_plan.stations, p) = IdAt(last_plan.stations, q)
        /\ \A p \in Range(AllPositions(current_stations, 1)) :
               \A q \in Range(AllPositions(current_stations, 1)) \ {p} :
                   IdAt(current_stations, p) = IdAt(current_stations, q) =>
                       PairedPositions(p, q)

\* an edit of two exercises has completed, one of them a unilateral pair
C12_Witness ==
    /\ EditCompleted
    /\ Cardinality(ids_to_replace) >= 2
    /\ \E p \in ReplacedPositions : \E q \in ReplacedPositions \ {p} :
           IdAt(current_stations, p) = IdAt(current_stations, q)
    /\ KeptIds # {}

-----------------------------------------------------------------------------
(* The retry driver alone: main() calls generate_workout_with_retries without
   max_retries, on the plans of scenarios S1 and S3 *)

\* def generate_workout_with_retries(max_retries=30, include_ids=None)
DefaultMaxRetries == 30

InitRetry == ProcessStart(S1Inputs \cup S3Inputs, DefaultMaxRetries)

NextRetry ==
    \/ StartRun
    \/ StartAttempt
    \/ BuildStation
    \/ BuildFails
    \/ SavePlan
    \/ RecordSession

SpecRetry == InitRetry /\ [][NextRetry]_vars

-----------------------------------------------------------------------------
(* C13 *)

\* C13: the driver makes at most max_retries attempts, and a regular
\* generation run at most 15; after a successful attempt it starts no other
\* attempt; a failed attempt is followed by another one while fewer than
\* max_retries were made, and the run fails after exactly max_retries attempts.
C13_RetryBound ==
    /\ [](attempt <= max_retries)
    /\ [](attempt <= 15)
    /\ [][pc = "saved" => pc' = "done"]_vars
    /\ [][pc = "building" /\ pc' = "attempt" => attempt < max_retries]_vars
    /\ [][pc = "building" /\ pc' = "exit2" => attempt = max_retries]_vars

-----------------------------------------------------------------------------
(* C14 *)

\* C14: every attempt starts from the same state: the pool as it was built
\* (filtered, in the same order), no usage, no used names, no used ids, no
\* stations.
C14_AttemptIsolation ==
    pc = "attempt" =>
        /\ driver_pool = InitialPool
        /\ cumulative_station_usage = EmptyMap
        /\ used_names = {}
        /\ used_exercise_ids = <<>>
        /\ stations = <<>>

-----------------------------------------------------------------------------
(* C15 *)

\* scenario S1: two stations, one kettlebell, two kettlebell exercises
S1Case == gear = S1Catalog /\ plan.equipment = S1Inventory

\* single-threaded program: a step that can be taken is taken
SpecRetryLive == SpecRetry /\ WF_vars(NextRetry)

\* C15: in scenario S1 no attempt admits a second station, no plan is saved
\* or returned, the run fails only after max_retries attempts, and every run
\* that started its attempts ends with that failure.
C15_InfeasiblePlan ==
    /\ [](S1Case => /\ Len(stations) < 2
                    /\ pc \notin {"saved", "done"}
                    /\ ~last_plan.exists
                    /\ (pc = "exit2" => attempt = max_retries))
    /\ ((S1Case /\ pc = "attempt") ~> (pc = "exit2"))

\* the run of S1 has failed after its last attempt
C15_Witness == S1Case /\ pc = "exit2" /\ attempt = max_retries

-----------------------------------------------------------------------------
(* C16 *)

\* scenario S3 as stated: plan.json names no equipment
S3Case == gear = S3Catalog /\ plan.equipment = EmptyMap

\* C16: in scenario S3 generation succeeds, and the station of the plan has
\* exactly the steps "Bulgarian Split Squat (Left)" and "Bulgarian Split
\* Squat (Right)".
C16_UnilateralExpansion ==
    S3Case =>
        /\ pc # "exit2"
        /\ pc = "saved" =>
               /\ Len(stations) = 1
               /\ [n \in 1..Len(stations[1].steps) |-> stations[1].steps[n].name]
                      = <<StepName("Bulgarian Split Squat", "Left"),
                          StepName("Bulgarian Split Squat", "Right")>>

-----------------------------------------------------------------------------
(* C17 *)

\* scenario S4: history on, exercise 10 in the last two sessions, 11 and 12
\* outside them, all three of one area
S4Case ==
    /\ gear = S4Catalog
    /\ plan.use_workout_history
    /\ 10 \in get_recently_used_exercise_ids(history_data, 2)
    /\ 11 \notin get_recently_used_exercise_ids(history_data, 2)
    /\ 12 \notin get_recently_used_exercise_ids(history_data, 2)

\* catalog position of an id
PositionOfId(eid) == CHOOSE k \in 1..Len(gear) : ExId(k) = eid

\* the selection with exercise 10 exchanged for another exercise
ExchangedFor10(station_exercises, k) ==
    [i \in 1..Len(station_exercises) |->
        IF ExId(station_exercises[i]) = 10 THEN k ELSE station_exercises[i]]

\* the admission check of a selection, as try_combination makes it
Admitted(station_exercises) ==
    can_add_station_to_workout(
        [i \in 1..Len(StepListOf(station_exercises, plan.equipment)) |->
            StepListOf(station_exercises, plan.equipment)[i].equipment],
        cumulative_station_usage, plan.equipment, plan.people_per_station)

\* exercise eid could have taken the step exercise 10 got: it is in the pool,
\* its name is unused in the plan and in the station, and the station with it
\* in place of 10 passes the admission check
SelectableFor10(eid, station_exercises) ==
    /\ PositionOfId(eid) \in Range(station_pool)
    /\ ExName(PositionOfId(eid)) \notin used_names
    /\ PositionOfId(eid) \notin Range(station_exercises)
    /\ Admitted(ExchangedFor10(station_exercises, PositionOfId(eid)))

\* a step of build_plan that admits a station holding exercise 10
Selects10 ==
    /\ S4Case
    /\ pc = "building"
    /\ Len(stations') = Len(stations) + 1
    /\ PositionOfId(10) \in Range(stations'[Len(stations')].station_exercises)

\* no must-use type is left to prioritise for the station being built
NoMustUseRound ==
    prioritize_must_use_exercises(plan.must_use, cumulative_station_usage, plan.equipment)
        = <<>>

-----------------------------------------------------------------------------
(* Specification SpecFilter: filter_feasible_exercises and build_station_pool
   applied to drawn catalogs and inventories *)

\* the "equipment" object of a drawn exercise, as an ordered listing
FilterListings ==
    {<<>>}
    \cup {<<[type |-> t, count |-> c]>> : t \in ReqTypes, c \in 1..MaxCount}
    \cup {<<[type |-> "bench", count |-> c], [type |-> "plyo_box", count |-> d]>> :
             c \in 1..MaxCount, d \in 1..MaxCount}

\* a drawn catalog: exercise k has id k and one of the listings
FilterCatalogs ==
    UNION {{[k \in 1..n |->
                [id |-> k, name |-> "Exercise", area |-> "upper", unilateral |-> FALSE,
                 equipment |-> listings[k]]] :
            listings \in [1..n -> FilterListings]} : n \in 0..MaxLen}

InitFilter ==
    /\ pc = "call"
    /\ fn_in \in [op : {"filter_feasible_exercises", "build_station_pool"},
                   available_inventory : StepMaps]
    /\ fn_out = None
    /\ history_data = EmptyHistory
    /\ runs = 0
    /\ plan = None
    /\ gear \in FilterCatalogs
    /\ max_retries = 0
    /\ include_ids = {}
    /\ crossfit_file = NoCrossfitFile
    /\ driver_pool = <<>>
    /\ attempt = 0
    /\ station_pool = <<>>
    /\ BuildLocalsInit
    /\ last_plan = NoLastPlan
    /\ EditLocalsInit

\* filter_feasible_exercises(pool, available_inventory) on the whole catalog
ApplyFilter ==
    /\ pc = "call"
    /\ fn_in.op = "filter_feasible_exercises"
    /\ pc' = "return"
    /\ fn_out' = filter_feasible_exercises([k \in 1..Len(gear) |-> k],
                                            fn_in.available_inventory)
    /\ UNCHANGED <<fn_in, histVars, planVars>>

\* build_station_pool(gear, available_inventory): die() is sys.exit(2)
ApplyBuildPool ==
    /\ pc = "call"
    /\ fn_in.op = "build_station_pool"
    /\ \E pool \in {build_station_pool(fn_in.available_inventory)} :
           IF pool = <<>>
           THEN pc' = "exit2" /\ fn_out' = None
           ELSE pc' = "return" /\ fn_out' = pool
    /\ UNCHANGED <<fn_in, histVars, planVars>>

NextFilter == ApplyFilter \/ ApplyBuildPool

SpecFilter == InitFilter /\ [][NextFilter]_vars

-----------------------------------------------------------------------------
(* C19 *)

\* every equipment type exercise k requires is in the inventory, with a count
\* that covers the required count
Feasible(k, inventory) ==
    \A e \in Range(gear[k].equipment) :
        e.type \in DOMAIN inventory /\ inventory[e.type] >= e.count

FilterReturned ==
    pc = "return" /\ fn_in.op = "filter_feasible_exercises"

\* C19: for a non-empty inventory the filter returns the exercises of the pool
\* whose every required type is in the inventory with a sufficient count, and
\* only those; in the order of the pool; each at most once; the catalog
\* entries are as they were.
C19_FeasibilityFilter ==
    (FilterReturned /\ fn_in.available_inventory # EmptyMap) =>
        /\ \A k \in 1..Len(gear) :
               k \in Range(fn_out) <=> Feasible(k, fn_in.available_inventory)
        /\ Range(fn_out) \subseteq 1..Len(gear)
        /\ \A i \in 1..Len(fn_out) : \A j \in 1..Len(fn_out) :
               i < j => fn_out[i] < fn_out[j]

\* the filter dropped an exercise for its count and kept a later one
C19_Witness ==
    /\ FilterReturned
    /\ fn_in.available_inventory # EmptyMap
    /\ Len(gear) >= 2
    /\ 1 \notin Range(fn_out)
    /\ gear[1].equipment # <<>>
    /\ \A e \in Range(gear[1].equipment) : e.type \in DOMAIN fn_in.available_inventory
    /\ fn_out = <<2>>

-----------------------------------------------------------------------------
(* C20 *)

BuildPoolCalled == pc \in {"return", "exit2"} /\ fn_in.op = "build_station_pool"

\* C20: with a non-empty inventory that no catalog exercise's requirements
\* fit, build_station_pool returns no pool: the process exits with status 2,
\* and no station was built.
C20_NoFeasibleExercises ==
    (/\ BuildPoolCalled
     /\ fn_in.available_inventory # EmptyMap
     /\ \A k \in 1..Len(gear) : ~Feasible(k, fn_in.available_inventory)) =>
        /\ pc = "exit2"
        /\ fn_out = None
        /\ stations = <<>>

\* two exercises, a non-empty inventory, neither feasible: exit status 2
C20_Witness ==
    /\ BuildPoolCalled
    /\ Len(gear) = 2
    /\ fn_in.available_inventory # EmptyMap
    /\ \A k \in 1..Len(gear) : ~Feasible(k, fn_in.available_inventory)
    /\ pc = "exit2"

-----------------------------------------------------------------------------
(* Specification SpecCrossfit: generation runs with the crossfit_path keys in
   plan.json and the -include flag *)

\* crossfit_path.json of scenario S6: A, B, C, D in this order; C has no id
CrossfitEntries(skips) ==
    << [name |-> "A", id |-> 21, skip |-> skips[1]],
       [name |-> "B", id |-> 22, skip |-> skips[2]],
       [name |-> "C", id |-> -1, skip |-> skips[3]],
       [name |-> "D", id |-> 24, skip |-> skips[4]] >>

CrossfitFiles ==
    {NoCrossfitFile}
    \cup {[exists |-> TRUE, entries |-> CrossfitEntries(skips)] :
             skips \in [1..4 -> BOOLEAN]}

\* the crossfit_path keys of plan.json; crossfit_path_count may be missing
CrossfitKeys ==
    {[crossfit_path |-> b] : b \in BOOLEAN}
    \cup {[crossfit_path |-> b, crossfit_path_count |-> c] : b \in BOOLEAN, c \in 0..5}

\* the plans of S3 (one station can be built) and S1 (no second station)
CrossfitPlans ==
    {base @@ keys : base \in {S3Plan(("bench" :> 1), FALSE), S1Plan(S1Inventory, FALSE)},
                    keys \in CrossfitKeys}

\* -include lists: none, ids of the catalogs, an unknown id, both
IncludeChoices == {{}, {1, 7}, {99}, {1, 7, 99}}

InitCrossfit ==
    /\ pc = "idle"
    /\ fn_in = None
    /\ fn_out = None
    /\ runs = 0
    /\ history_data = EmptyHistory
    /\ last_plan = NoLastPlan
    /\ plan \in CrossfitPlans
    /\ gear = IF plan.stations = 1 THEN S3Catalog ELSE S1Catalog
    /\ max_retries = DefaultMaxRetries
    /\ include_ids \in IncludeChoices
    /\ crossfit_file \in CrossfitFiles
    /\ driver_pool = <<>>
    /\ attempt = 0
    /\ station_pool = <<>>
    /\ BuildLocalsInit
    /\ EditLocalsInit

NextCrossfit ==
    \/ StartRun
    \/ StartAttempt
    \/ CrossfitAttempt
    \/ BuildStation
    \/ BuildFails
    \/ SavePlan
    \/ SaveCrossfitPlan
    \/ RecordSession

SpecCrossfit == InitCrossfit /\ [][NextCrossfit]_vars

-----------------------------------------------------------------------------
(* C18 *)

\* the first n entries without skip, in file order
RECURSIVE FirstNonSkipped(_, _)
FirstNonSkipped(entries, n) ==
    IF entries = <<>> \/ n = 0 THEN <<>>
    ELSE IF Head(entries).skip THEN FirstNonSkipped(Tail(entries), n)
    ELSE <<Head(entries).name>> \o FirstNonSkipped(Tail(entries), n - 1)

\* crossfit_path is true, its file is there and crossfit_path_count is given
CrossfitCase == CrossfitMode /\ "crossfit_path_count" \in DOMAIN plan

\* C18: with crossfit_path true the generated plan is the single station "A"
\* whose steps are the first crossfit_path_count non-skipped entries in file
\* order; build_plan is never entered; and the -include ids change nothing:
\* in particular the run is not refused because of them.
C18_CrossfitOverride ==
    CrossfitCase =>
        /\ pc \in {"generated", "saved"} =>
               /\ Len(stations) = 1
               /\ stations[1].letter = "A"
               /\ [n \in 1..Len(stations[1].steps) |-> stations[1].steps[n].name]
                      = FirstNonSkipped(crossfit_file.entries, plan.crossfit_path_count)
        /\ pc # "building"
        /\ pc # "exit1"

-----------------------------------------------------------------------------
(* C21 *)

\* the pool still holds enough bilateral exercises with unused names to fill
\* every step of every station that is still to build
EnoughUnused ==
    Len(SelectSeq(AvailableExercises(station_pool, used_names),
                  LAMBDA k : ~ExUnilateral(k)))
        >= plan.steps_per_station * (plan.stations - Len(stations))

\* C21: with an empty inventory no exercise is filtered out of the pool, and
\* whenever the pool holds enough unused exercises the pass of build_plan
\* admits a station instead of failing, so the plan is completed.
C21_EmptyInventory ==
    /\ [](plan.equipment = EmptyMap =>
              build_station_pool(plan.equipment) = [k \in 1..Len(gear) |-> k])
    /\ [][(/\ pc = "building"
           /\ plan.equipment = EmptyMap
           /\ Len(stations) < plan.stations
           /\ EnoughUnused)
          => (pc' = "building" /\ Len(stations') = Len(stations) + 1)]_vars

-----------------------------------------------------------------------------
(* C22 *)

\* the step of main() that follows save_workout_html and ends the run
RecordStep == pc = "saved" /\ pc' = "done"

\* C22 as stated: every successful generation run records its session, once,
\* after the artifacts are written, and nothing else touches the history.
C22_Original ==
    [][/\ RecordStep => history_data' # history_data
       /\ history_data' # history_data => RecordStep /\ last_plan.exists]_vars

\* C22: the history changes only in the last step of a successful generation
\* run, after the last-plan artifact has been written, and only with the
\* history enabled; that step adds exactly one session when the history is
\* enabled and the run used some exercise id. No failed attempt, failed run
\* or edit run changes the history.
C22_HistoryOrdering ==
    [][/\ history_data' # history_data =>
              /\ RecordStep
              /\ last_plan.exists
              /\ plan.use_workout_history
       /\ (RecordStep /\ plan.use_workout_history /\ used_exercise_ids # <<>>) =>
              /\ history_data'.total_workouts_generated
                     = history_data.total_workouts_generated + 1
              /\ history_data'.workout_sessions[Len(history_data'.workout_sessions)]
                     .used_exercise_ids = used_exercise_ids]_vars

\* an edit run has ended after a recorded generation run that followed an
\* earlier session
C22_Witness ==
    /\ pc = "edited"
    /\ runs = 1
    /\ history_data.total_workouts_generated = 2

-----------------------------------------------------------------------------
(* C23 *)

\* the exit status of a process that has ended: sys.exit(1), die() or the
\* return of main()
ExitStatus ==
    CASE pc = "exit1" -> 1
      [] pc = "exit2" -> 2
      [] pc \in {"done", "edited"} -> 0

\* the process ended on an error; no run of the model is cancelled by the user
FatalEnd == pc \in {"exit1", "exit2"}

\* C23: a process that ends on a fatal error (nothing to edit, no replacement,
\* exhausted retries) has exit status 2, and one that ends without error has
\* exit status 0; status 1 is left to user cancellation.
C23_ExitCodes ==
    /\ FatalEnd => ExitStatus = 2
    /\ pc \in {"done", "edited"} => ExitStatus = 0

-----------------------------------------------------------------------------
(* C24 *)

-----------------------------------------------------------------------------
(* Specification SpecRest: the rest drills of workout_planner.py *)

\* calls of next_active_rest in one behaviour
MaxCalls == 7

\* build_plan: plan.get("active_rest_count", 4)
DefaultActiveRestCount == 4

\* {"name": "Rest", "link": ""}; a rest activity is handled by its name
PlainRest == "Rest"

\* the "rest" list of active_rest.json in the test set-up: Drill0 .. Drill8
NineDrills ==
    <<"Drill0", "Drill1", "Drill2", "Drill3", "Drill4", "Drill5", "Drill6",
      "Drill7", "Drill8">>

\* rest pools as setup_active_rest hands them to build_plan
RestPools == {SubSeq(NineDrills, 1, n) : n \in 0..3}

\* mutant: the drill is read from the end of the pool but left in it
next_active_rest_kept(rest_pool, used_rest, shuffled) ==
    LET pool == IF Len(rest_pool) = 0 THEN shuffled ELSE rest_pool
        used == IF Len(rest_pool) = 0 THEN <<>> ELSE used_rest
    IN [drill |-> pool[Len(pool)],
        rest_pool |-> pool,
        used_rest |-> Append(used, pool[Len(pool)])]

\* next_active_rest; shuffled is what random.shuffle makes of the refilled
\* pool; the result carries the two lists as the call leaves them
next_active_rest(rest_pool, used_rest, shuffled) ==
    LET pool == IF Len(rest_pool) = 0 THEN shuffled ELSE rest_pool
        used == IF Len(rest_pool) = 0 THEN <<>> ELSE used_rest
    IN [drill |-> pool[Len(pool)],
        rest_pool |-> SubSeq(pool, 1, Len(pool) - 1),
        used_rest |-> Append(used, pool[Len(pool)])]

\* random.sample(population, k): k entries at distinct positions, any order
Samples(population, k) ==
    {[i \in 1..k |-> population[f[i]]] :
        f \in {g \in [1..k -> 1..Len(population)] :
                  \A i, j \in 1..k : i # j => g[i] # g[j]}}

\* build_plan: the branch that selects active rest exercises is taken
ActiveBranch(active_rest_mode, rest_pool) ==
    active_rest_mode \in {"all_active", "mix"} /\ rest_pool # <<>>

\* build_plan: the values selected_exercises can take
SelectedExercises(active_rest_mode, rest_pool, active_rest_count) ==
    IF ActiveBranch(active_rest_mode, rest_pool)
    THEN IF Len(rest_pool) >= active_rest_count
         THEN Samples(rest_pool, active_rest_count)
         ELSE {rest_pool \o [i \in 1..(active_rest_count - Len(rest_pool)) |-> PlainRest]}
    ELSE {<<>>}

\* mutant: the cycle through the selected exercises starts one entry late
GlobalActiveRestSchedulesShifted(active_rest_mode, rest_pool, selected_exercises, steps_per_station) ==
    IF ActiveBranch(active_rest_mode, rest_pool)
    THEN {[step \in 1..steps_per_station |->
              selected_exercises[(step % Len(selected_exercises)) + 1]]}
    ELSE {[step \in 1..steps_per_station |-> PlainRest]}

\* build_plan: the values global_active_rest_schedule can take; random.choice
\* of the mix mode is a coin per step
GlobalActiveRestSchedules(active_rest_mode, rest_pool, selected_exercises, steps_per_station) ==
    IF ActiveBranch(active_rest_mode, rest_pool)
    THEN IF active_rest_mode = "all_active"
         THEN {[step \in 1..steps_per_station |->
                   selected_exercises[((step - 1) % Len(selected_exercises)) + 1]]}
         ELSE {[step \in 1..steps_per_station |->
                   IF coin[step]
                   THEN selected_exercises[((step - 1) % Len(selected_exercises)) + 1]
                   ELSE PlainRest] : coin \in [1..steps_per_station -> BOOLEAN]}
    ELSE {[step \in 1..steps_per_station |-> PlainRest]}

\* station_data[f"rest_step{step_num}"] for step_idx in range(steps_per_station)
RestSteps(global_active_rest_schedule, steps_per_station) ==
    [step \in 1..steps_per_station |-> global_active_rest_schedule[step]]

\* the calls the specification starts from: next_active_rest on a pool of
\* distinct drills with nothing used, and build_plan's schedule for a plan
RestCalls ==
    {[op |-> "next_active_rest", rest_pool |-> pool, used_rest |-> <<>>,
      returned |-> <<>>] : pool \in RestPools \ {<<>>}}
    \cup
    {[op |-> "build_plan", active_rest_mode |-> mode, rest_pool |-> pool,
      active_rest_count |-> count, steps_per_station |-> k, stations |-> n] :
        mode \in {"all_active", "mix", "all_rest"}, pool \in RestPools,
        count \in {1, 2, DefaultActiveRestCount}, k \in 1..MaxSteps,
        n \in 1..MaxStations}
    \cup
    {[op |-> "build_plan", active_rest_mode |-> "all_active", rest_pool |-> NineDrills,
      active_rest_count |-> DefaultActiveRestCount, steps_per_station |-> 2,
      stations |-> 3]}

InitRest ==
    /\ pc = "call"
    /\ fn_in \in RestCalls
    /\ fn_out = None
    /\ history_data = EmptyHistory
    /\ runs = 0
    /\ NoPlanRun

\* one call of next_active_rest on the lists the last call left
CallNextActiveRest ==
    /\ pc \in {"call", "return"}
    /\ fn_in.op = "next_active_rest"
    /\ Len(fn_in.returned) < MaxCalls
    /\ pc' = "return"
    /\ \E shuffled \in Shuffles(fn_in.used_rest) :
       \E result \in {next_active_rest(fn_in.rest_pool, fn_in.used_rest, shuffled)} :
           /\ fn_out' = result.drill
           /\ fn_in' = [fn_in EXCEPT !.rest_pool = result.rest_pool,
                                      !.used_rest = result.used_rest,
                                      !.returned = Append(@, result.drill)]
    /\ UNCHANGED <<histVars, planVars>>

\* build_plan: the schedule, and the rest steps of the stations it emits
ApplyRestSchedule ==
    /\ pc = "call"
    /\ fn_in.op = "build_plan"
    /\ pc' = "return"
    /\ \E selected_exercises \in SelectedExercises(fn_in.active_rest_mode, fn_in.rest_pool,
                                                   fn_in.active_rest_count) :
       \E global_active_rest_schedule \in
               GlobalActiveRestSchedules(fn_in.active_rest_mode, fn_in.rest_pool,
                                         selected_exercises, fn_in.steps_per_station) :
           fn_out' = [selected_active_rest_exercises |-> selected_exercises,
                      global_active_rest_schedule |-> global_active_rest_schedule,
                      rest_steps |-> [s \in 1..fn_in.stations |->
                                         RestSteps(global_active_rest_schedule,
                                                   fn_in.steps_per_station)]]
    /\ UNCHANGED <<fn_in, histVars, planVars>>

NextRest == CallNextActiveRest \/ ApplyRestSchedule

SpecRest == InitRest /\ [][NextRest]_vars

-----------------------------------------------------------------------------
(* C25 *)

\* next_active_rest has been called at least once
RestCalled == pc = "return" /\ fn_in.op = "next_active_rest"

\* the drills of the pool the calls started from
DrillsOf(call) == Range(call.rest_pool) \cup Range(call.used_rest)

\* the b-th block of n consecutive return values, as far as it has got
BlockOf(returned, n, b) ==
    SubSeq(returned, (b - 1) * n + 1,
           IF b * n < Len(returned) THEN b * n ELSE Len(returned))

\* build_plan has returned its schedule
ScheduleBuilt == pc = "return" /\ fn_in.op = "build_plan"

\* the rest activities the stations of the plan show
RestsShown == UNION {Range(fn_out.rest_steps[s]) : s \in 1..fn_in.stations}

\* the plan of test_active_rest_auto: 3 stations of 2 steps, 9 drills,
\* all_active
NineDrillCase ==
    /\ ScheduleBuilt
    /\ fn_in.rest_pool = NineDrills
    /\ fn_in.active_rest_mode = "all_active"
    /\ fn_in.stations = 3

-----------------------------------------------------------------------------
(* C26 *)

\* the call of the station builder that succeeds, as a position of rounds;
\* 0 when none does
RECURSIVE FirstSuccess(_, _, _)
FirstSuccess(rounds, i, variety) ==
    IF i > Len(rounds) THEN 0
    ELSE IF find_compatible_exercises_for_station(
                station_pool, plan.steps_per_station, used_names, variety,
                BuilderContext(rounds[i])) # <<>>
    THEN i
    ELSE FirstSuccess(rounds, i + 1, variety)

\* the calls build_plan makes for the station it is about to build
RoundsNow ==
    MustUseRounds(prioritize_must_use_exercises(plan.must_use, cumulative_station_usage,
                                                plan.equipment))

\* the must_use_equipment lists [t] whose call can have returned the
\* selection station_exercises in this state
ReturningRounds(station_exercises) ==
    {RoundsNow[FirstSuccess(RoundsNow, 1, VarietyScores(random_scores))] :
        random_scores \in {rs \in ScoreDraws :
                              StationExercises(VarietyScores(rs)) = station_exercises}}
        \ {<<>>}

\* C26: when build_plan admits a station that the builder returned for the
\* must-use list [t], the station's equipment requirement holds t and the
\* cumulative usage of t has grown.
C26_MustUseReallyUsed ==
    [][(pc = "building" /\ Len(stations') = Len(stations) + 1) =>
          \A round \in ReturningRounds(stations'[Len(stations')].station_exercises) :
              /\ round[1] \in DOMAIN get_station_equipment_requirements(
                                         stations'[Len(stations')].step_equipments,
                                         plan.people_per_station)
              /\ GetCount(cumulative_station_usage', round[1])
                     > GetCount(cumulative_station_usage, round[1])]_vars

-----------------------------------------------------------------------------
(* Specification SpecSelect: select_best_equipment_option on drawn maps *)

SelectTypes == {"bench", "dumbbells_3kg", "dumbbells_5kg", "slam_balls_5kg", "slam_balls_8kg"}

\* an exercise's "equipment" object: distinct types in listing order
SelectListings ==
    UNION {{listing \in [1..n -> [type : SelectTypes, count : 1..MaxCount]] :
               \A i, j \in 1..n : i # j => listing[i].type # listing[j].type} :
           n \in 0..MaxLen}

\* plan["equipment"] as the call sees it
SelectInventories ==
    { EmptyMap,
      ("bench" :> 1) @@ ("dumbbells_3kg" :> 2) @@ ("dumbbells_5kg" :> 2),
      ("dumbbells_3kg" :> 1) @@ ("dumbbells_5kg" :> 2) @@ ("slam_balls_8kg" :> 1),
      ("dumbbells_5kg" :> 1) @@ ("slam_balls_5kg" :> 2) @@ ("slam_balls_8kg" :> 2),
      ("bench" :> 2) @@ ("slam_balls_5kg" :> 1) }

InitSelect ==
    /\ pc = "call"
    /\ fn_in \in [op : {"select_best_equipment_option"},
                  exercise_equipment : SelectListings,
                  available_inventory : SelectInventories]
    /\ fn_out = None
    /\ history_data = EmptyHistory
    /\ runs = 0
    /\ NoPlanRun

ApplySelect ==
    /\ pc = "call"
    /\ pc' = "return"
    /\ fn_out' = select_best_equipment_option(fn_in.exercise_equipment,
                                              fn_in.available_inventory)
    /\ UNCHANGED <<fn_in, histVars, planVars>>

NextSelect == ApplySelect

SpecSelect == InitSelect /\ [][NextSelect]_vars

-----------------------------------------------------------------------------
(* C27 *)

\* the weight family whose prefix an equipment type carries
FamilyOf(t) ==
    CASE t \in {"dumbbells_3kg", "dumbbells_5kg"} -> "dumbbells"
      [] t = "kettlebells_16kg" -> "kettlebells"
      [] t \in {"slam_balls_5kg", "slam_balls_8kg"} -> "slam_balls"
      [] OTHER -> "other"

\* positions of the listing whose entry belongs to family
FamilyEntries(listing, family) ==
    {i \in 1..Len(listing) : FamilyOf(listing[i].type) = family}

\* entry i can be served: available >= required
Servable(listing, i, inventory) ==
    GetCount(inventory, listing[i].type) >= listing[i].count

\* score of entry i is at least the score of entry j
ScoreAtLeast(listing, i, j, inventory) ==
    ScoreNum(GetCount(inventory, listing[i].type), listing[i].count)
            * ScoreDen(GetCount(inventory, listing[j].type))
        >= ScoreNum(GetCount(inventory, listing[j].type), listing[j].count)
            * ScoreDen(GetCount(inventory, listing[i].type))

\* the entry of the family the claim expects in the result
ExpectedEntry(listing, family, inventory) ==
    LET entries == FamilyEntries(listing, family)
        servable == {i \in entries : Servable(listing, i, inventory)}
        best == {i \in servable : \A j \in servable : ScoreAtLeast(listing, i, j, inventory)}
        first(S) == CHOOSE i \in S : \A j \in S : i <= j
    IN IF servable # {} THEN first(best) ELSE first(entries)

\* select_best_equipment_option has returned for a non-empty inventory
SelectReturned == pc = "return" /\ fn_in.available_inventory # EmptyMap

\* C27: the result keeps every entry outside the weight families with its
\* count and holds, for each of the families dumbbells, kettlebells and
\* slam_balls the exercise lists, exactly one entry: the first-listed of the
\* best-scoring servable entries, or the first-listed entry when none is
\* servable.
C27_EquipmentOptionSelection ==
    SelectReturned =>
        LET listing == fn_in.exercise_equipment
            inventory == fn_in.available_inventory
        IN /\ \A i \in FamilyEntries(listing, "other") :
                  /\ listing[i].type \in DOMAIN fn_out
                  /\ fn_out[listing[i].type] = listing[i].count
           /\ \A family \in WeightFamilies :
                  FamilyEntries(listing, family) # {} =>
                      /\ {i \in FamilyEntries(listing, family) :
                             listing[i].type \in DOMAIN fn_out}
                           = {ExpectedEntry(listing, family, inventory)}
                      /\ fn_out[listing[ExpectedEntry(listing, family, inventory)].type]
                           = listing[ExpectedEntry(listing, family, inventory)].count

-----------------------------------------------------------------------------
(* C28 *)

\* the fixed table of must-use types, most constrained first
C28_Table ==
    <<"plyo_box", "bench", "dip_parallel_bars", "barbells",
      "slam_balls_5kg", "dumbbells_3kg", "dumbbells_5kg">>

\* the must-use types whose cumulative usage is below their inventory count:
\* those of the table in table order, then the others
C28_Unused ==
    LET below(t) == GetCount(cumulative_station_usage, t) < GetCount(plan.equipment, t)
    IN SelectSeq(C28_Table, LAMBDA t : t \in Range(plan.must_use) /\ below(t))
       \o SelectSeq(plan.must_use, LAMBDA t : t \notin Range(C28_Table) /\ below(t))

\* what the station builder returns in this state for each unused type alone,
\* in order, and last for no must-use type
C28_Tries(random_scores) ==
    [i \in 1..(Len(C28_Unused) + 1) |->
        find_compatible_exercises_for_station(
            station_pool, plan.steps_per_station, used_names, VarietyScores(random_scores),
            BuilderContext(IF i <= Len(C28_Unused) THEN <<C28_Unused[i]>> ELSE <<>>))]

\* build_plan is about to build a station from a pool that is not empty
C28_Building ==
    /\ pc = "building"
    /\ Len(stations) < plan.stations
    /\ station_pool # <<>>

\* C28: the unused must-use types are those whose usage is below their
\* inventory count, in table order with unknown types last; the station build_plan
\* admits is the first success of the builder tried with each of them alone in
\* that order and then with none, and the attempt fails only when every one
\* of these tries failed.
C28_MustUseAttemptOrder ==
    /\ [](C28_Building =>
              prioritize_must_use_exercises(plan.must_use, cumulative_station_usage,
                                            plan.equipment) = C28_Unused)
    /\ [][(C28_Building /\ Len(stations') = Len(stations) + 1) =>
              \E random_scores \in ScoreDraws :
              \E tries \in {C28_Tries(random_scores)} :
              \E i \in 1..Len(tries) :
                  /\ tries[i] # <<>>
                  /\ tries[i] = stations'[Len(stations')].station_exercises
                  /\ \A j \in 1..(i - 1) : tries[j] = <<>>]_vars
    /\ [][(C28_Building /\ pc' # "building") =>
              \E random_scores \in ScoreDraws :
              \E tries \in {C28_Tries(random_scores)} :
                  \A i \in 1..Len(tries) : tries[i] = <<>>]_vars

\* a station was admitted, the plyo boxes are used up and only the other
\* must-use type is left to try
C28_Witness ==
    /\ C28_Building
    /\ Len(stations) >= 1
    /\ plan.must_use = <<"dumbbells_5kg", "plyo_box">>
    /\ GetCount(cumulative_station_usage, "plyo_box") = GetCount(plan.equipment, "plyo_box")
    /\ C28_Unused = <<"dumbbells_5kg">>

\* a type outside the table is tried after one inside it, against the order
\* of the must-use list
C28_UnknownLast ==
    /\ C28_Building
    /\ plan.must_use = <<"kettlebells_16kg", "bench">>
    /\ C28_Unused = <<"bench", "kettlebells_16kg">>

-----------------------------------------------------------------------------
(* C29 *)

\* entry i (from 0) of the cycle through the selected exercises
C29_Cycled(i) ==
    fn_out.selected_active_rest_exercises[
        (i % Len(fn_out.selected_active_rest_exercises)) + 1]

-----------------------------------------------------------------------------
(* C30 *)

\* C30: when build_plan admits a station, the expanded step list of the
\* selected exercises (two slots per unilateral exercise, one per bilateral)
\* has exactly steps_per_station slots, so nothing is padded and nothing is
\* cut, and every selected exercise, whose name and id were recorded and
\* whose equipment was counted, is a step of the emitted station.
C30_SelectedImpliesEmitted ==
    [][(pc = "building" /\ Len(stations') = Len(stations) + 1) =>
          LET station == stations'[Len(stations')]
              selected == station.station_exercises
              expanded == StepListOf(selected, plan.equipment)
          IN /\ Len(expanded) = plan.steps_per_station
             /\ station.steps = expanded
             /\ \A i \in 1..Len(selected) :
                    /\ ExName(selected[i]) \in used_names'
                    /\ \E j \in 1..Len(station.steps) :
                           station.steps[j].name.base = ExName(selected[i])]_vars

====
